---- MODULE Spec2Model ----
(***************************************************************************)
(* The todo application's query layer (src/lib/db/queries.ts) and request  *)
(* handlers (app/api/.../route.ts) over the relational store of            *)
(* src/lib/db/schema.ts.                                                   *)
(*                                                                         *)
(* The todos and categories tables are sets of rows (their primary key is  *)
(* a generated uuid); todo_categories is a bag of rows, so that its        *)
(* composite primary key is something the insert has to keep.  A           *)
(* query-layer function is an operator from a database value (and its      *)
(* arguments) to an outcome record                                         *)
(*    [db, ok, value, error]                                               *)
(* "ok" is FALSE when the function throws, and "error" is then the message *)
(* of the Error it throws, as a sequence of words.                         *)
(***************************************************************************)
EXTENDS Integers, Sequences, FiniteSets, Bags, TLC

\* ------------------------------------------------------------------ bounds
MaxTodos == 2
MaxCategories == 2
MaxTime == 1
MaxLen == 2

\* ------------------------------------------------------------------ values
Users == {"A", "B"}
TodoIds == 1..MaxTodos
CategoryIds == 1..MaxCategories
\* SQL NULL of a timestamp column
NULL == 0 - 1
\* A text is a sequence of characters; SQL NULL of a text column
NULLTEXT == <<"NULL">>
\* JavaScript null / undefined of a row-valued result (result[0] || null)
null == {}

\* The elements of an array.
Range(seq) == {seq[i] : i \in DOMAIN seq}

VARIABLES db, uuid, now, pre, last, running

vars == <<db, uuid, now, pre, last, running>>

\* ------------------------------------------------------------------ schema
\* pgTable("todos"), pgTable("categories"), pgTable("todo_categories")
todos == db.todos

categories == db.categories

todoCategories == db.todoCategories

EmptyDb == [todos |-> {}, categories |-> {}, todoCategories |-> EmptyBag]

\* The columns of a todos row and their defaults (default(false), default(2),
\* defaultNow()); title and user_id are notNull without a default.
TodoRow(id, data, t) ==
    [id |-> id,
     user_id |-> data.user_id,
     title |-> data.title,
     description |-> IF "description" \in DOMAIN data THEN data.description ELSE NULLTEXT,
     is_completed |-> IF "is_completed" \in DOMAIN data THEN data.is_completed ELSE FALSE,
     priority |-> IF "priority" \in DOMAIN data THEN data.priority ELSE 2,
     due_date |-> IF "due_date" \in DOMAIN data THEN data.due_date ELSE NULL,
     created_at |-> t,
     updated_at |-> t]

CategoryRow(id, data, t) ==
    [id |-> id, user_id |-> data.user_id, name |-> data.name, color |-> data.color,
     created_at |-> t]

\* UPDATE ... SET data that leaves updated_at to the caller's data
SetColumnsOfData(row, data) ==
    [c \in DOMAIN row |-> IF c \in DOMAIN data /\ c # "updated_at" THEN data[c] ELSE row[c]]

\* UPDATE ... SET data: the columns of data take data's values, the others stay.
SetColumns(row, data) ==
    [c \in DOMAIN row |-> IF c \in DOMAIN data THEN data[c] ELSE row[c]]

\* The distinct rows of todo_categories.
Rows(table) == BagToSet(table)

\* DELETE FROM todo_categories, its WHERE clause lost
DeleteOfEveryTodo(table, todoId) == EmptyBag

\* DELETE FROM todo_categories WHERE category_id = todoId
DeleteByCategory(table, todoId) ==
    LET keep == {r \in Rows(table) : r.category_id # todoId}
    IN [r \in keep |-> table[r]]

\* DELETE FROM todo_categories WHERE todo_id = todoId
DeleteByTodo(table, todoId) ==
    LET keep == {r \in Rows(table) : r.todo_id # todoId}
    IN [r \in keep |-> table[r]]

\* DELETE FROM todo_categories WHERE todo_id = todoId AND category_id = ANY(categoryIds)
DeleteByTodoAndCategories(table, todoId, categoryIds) ==
    LET ids == {categoryIds[i] : i \in DOMAIN categoryIds}
        keep == {r \in Rows(table) : ~(r.todo_id = todoId /\ r.category_id \in ids)}
    IN [r \in keep |-> table[r]]

\* ON DELETE CASCADE on todo_categories.todo_id alone
OnDeleteCascadeOfTodos(d) ==
    LET keep == {tc \in Rows(d.todoCategories) : \E t \in d.todos : t.id = tc.todo_id}
    IN [d EXCEPT !.todoCategories = [tc \in keep |-> d.todoCategories[tc]]]

\* ON DELETE CASCADE of todo_categories.todo_id and todo_categories.category_id:
\* an association row goes with either parent.
OnDeleteCascade(d) ==
    LET keep == {tc \in Rows(d.todoCategories) :
                    /\ \E t \in d.todos : t.id = tc.todo_id
                    /\ \E c \in d.categories : c.id = tc.category_id}
    IN [d EXCEPT !.todoCategories = [tc \in keep |-> d.todoCategories[tc]]]

\* The foreign keys of todo_categories: a row to insert must reference a todo
\* and a category that exist.
ForeignKeysHold(d, values) ==
    \A i \in DOMAIN values :
        /\ \E t \in d.todos : t.id = values[i].todo_id
        /\ \E c \in d.categories : c.id = values[i].category_id

\* INSERT INTO todo_categories VALUES values into a table without the primary key
insertWithoutPrimaryKey(table, values) ==
    table (+) [r \in Range(values) |-> Cardinality({i \in DOMAIN values : values[i] = r})]

\* INSERT INTO todo_categories VALUES values ON CONFLICT DO NOTHING: the rows of
\* values go in one by one, and one whose primary key (todo_id, category_id) is
\* already there is skipped.
RECURSIVE onConflictDoNothing(_, _)
onConflictDoNothing(table, values) ==
    IF values = <<>> THEN table
    ELSE onConflictDoNothing(
            IF BagIn(Head(values), table) THEN table
            ELSE table (+) SetToBag({Head(values)}),
            Tail(values))

\* ------------------------------------------------------------------ outcomes
Return(d, v) == [db |-> d, ok |-> TRUE, value |-> v, error |-> <<>>]

Throw(d, message) == [db |-> d, ok |-> FALSE, value |-> null, error |-> message]

\* try { body } catch (error) { throw new Error(message) }
TryCatch(body, message) ==
    IF body.ok THEN body ELSE Throw(body.db, message)

\* result[0] || null
First(rows) == IF rows = {} THEN null ELSE {CHOOSE r \in rows : TRUE}

\* ------------------------------------------------------------------ messages
\* An Error's message, word by word; includes(message, words) is
\* message.includes("w1 w2 ...") for a search string made of whole words.
includes(message, words) ==
    \E i \in 0..(Len(message) - Len(words)) :
        \A j \in 1..Len(words) : message[i + j] = words[j]

TodoNotFoundOrAccessDenied == <<"Todo", "not", "found", "or", "access", "denied">>
CategoriesNotFoundOrAccessDenied ==
    <<"One", "or", "more", "categories", "not", "found", "or", "access", "denied">>
FailedToAddCategories == <<"Failed", "to", "add", "categories", "to", "todo">>
FailedToRemoveCategories == <<"Failed", "to", "remove", "categories", "from", "todo">>
FailedToReplaceCategories == <<"Failed", "to", "replace", "todo", "categories">>
FailedToFetchTodoCategories == <<"Failed", "to", "fetch", "todo", "categories">>
NoUserFoundInSession == <<"No", "user", "found", "in", "session">>

\* ------------------------------------------------------------------ todo queries
\* The collation of text columns: the characters in order.
Alphabet == <<"a", "b", "c">>

CharRank(c) == CHOOSE i \in DOMAIN Alphabet : Alphabet[i] = c

RECURSIVE TextLess(_, _)
TextLess(x, y) ==
    IF y = <<>> THEN FALSE
    ELSE IF x = <<>> THEN TRUE
    ELSE IF Head(x) = Head(y) THEN TextLess(Tail(x), Tail(y))
    ELSE CharRank(Head(x)) < CharRank(Head(y))

\* text LIKE pattern: "%" of the pattern stands for any run of characters and
\* "_" for any one character; every other character stands for itself.
RECURSIVE LikeMatch(_, _)
LikeMatch(text, pattern) ==
    IF pattern = <<>> THEN text = <<>>
    ELSE IF Head(pattern) = "%"
    THEN LikeMatch(text, Tail(pattern))
            \/ (text # <<>> /\ LikeMatch(Tail(text), pattern))
    ELSE IF Head(pattern) = "_"
    THEN text # <<>> /\ LikeMatch(Tail(text), Tail(pattern))
    ELSE text # <<>> /\ Head(text) = Head(pattern) /\ LikeMatch(Tail(text), Tail(pattern))

\* like(column, `%${search}%`): the search string goes into the pattern as it
\* is; NULL is like nothing.
like(text, search) ==
    text # NULLTEXT /\ LikeMatch(text, <<"%">> \o search \o <<"%">>)

\* a sorts strictly before b under ORDER BY field ASC; PostgreSQL sorts NULL
\* as larger than every value (NULLS LAST ascending, NULLS FIRST descending).
SortsBefore(a, b, field) ==
    IF field = "title" THEN TextLess(a.title, b.title)
    ELSE IF a[field] = NULL THEN FALSE
    ELSE IF b[field] = NULL THEN TRUE
    ELSE a[field] < b[field]

\* The sequences that hold each row of rows once.
Orderings(rows) ==
    {seq \in [1..Cardinality(rows) -> rows] :
        \A i, j \in 1..Cardinality(rows) : i # j => seq[i] # seq[j]}

\* The orders ORDER BY asc(field) / desc(field) may return the rows in: rows
\* with equal keys come in any order.
orderBy(rows, field, direction) ==
    {seq \in Orderings(rows) :
        \A i, j \in DOMAIN seq : i < j =>
            IF direction = "asc" THEN ~SortsBefore(seq[j], seq[i], field)
            ELSE ~SortsBefore(seq[i], seq[j], field)}

\* The conjunction of conditions of getUserTodos' first query.
Conditions(t, userId, filters) ==
    /\ t.user_id = userId
    /\ "isCompleted" \in DOMAIN filters => t.is_completed = filters.isCompleted
    /\ "priority" \in DOMAIN filters => t.priority = filters.priority
    /\ ("search" \in DOMAIN filters /\ filters.search # <<>>) =>
            (like(t.title, filters.search) \/ like(t.description, filters.search))

\* The results getUserTodos may return: a set of sequences, one per order the
\* store may return rows of equal sort key in.
getUserTodos(d, userId, filters, sort) ==
    LET sortField == IF "field" \in DOMAIN sort THEN sort.field ELSE "created_at"
        sortDirection == IF "direction" \in DOMAIN sort THEN sort.direction ELSE "desc"
        results == orderBy({t \in d.todos : Conditions(t, userId, filters)},
                           sortField, sortDirection)
        todoIds == IF "categoryId" \in DOMAIN filters
                   THEN {tc.todo_id : tc \in {r \in Rows(d.todoCategories) :
                                                r.category_id = filters.categoryId}}
                   ELSE {}
    IN IF "categoryId" \in DOMAIN filters
       THEN {SelectSeq(result, LAMBDA todo : todo.id \in todoIds) : result \in results}
       ELSE results

\* getTodoById without the user_id condition of its WHERE clause
getTodoByIdOfAnyUser(d, todoId, userId) ==
    Return(d, First({t \in d.todos : t.id = todoId}))

getTodoById(d, todoId, userId) ==
    Return(d, First({t \in d.todos : t.id = todoId /\ t.user_id = userId}))

\* The join made on todo_categories.todo_id = categories.id
JoinedOnTodoId(d, todoId) ==
    {c \in d.categories :
        \E tc \in Rows(d.todoCategories) : tc.todo_id = todoId /\ tc.todo_id = c.id}

\* The categories joined to the association rows of the todo, one per association row.
JoinedCategories(d, todoId) ==
    {c \in d.categories :
        \E tc \in Rows(d.todoCategories) : tc.todo_id = todoId /\ tc.category_id = c.id}

getTodoWithCategories(d, todoId, userId) ==
    LET todo == getTodoById(d, todoId, userId).value
    IN IF todo = null THEN Return(d, null)
       ELSE Return(d, {[todo |-> CHOOSE t \in todo : TRUE,
                        categories |-> JoinedCategories(d, todoId)]})

FailedToUpdateTodo == <<"Failed", "to", "update", "todo">>

\* What the store checks when UPDATE todos turns the rows of match into the
\* rows of result: the primary key (no two rows of one id) and the foreign key
\* of todo_categories.todo_id, which has no ON UPDATE action (an id that
\* association rows reference stays).
ConstraintsHold(d, match, result) ==
    LET after == (d.todos \ match) \cup result
    IN /\ Cardinality({r.id : r \in after}) = Cardinality(d.todos)
       /\ \A tc \in Rows(d.todoCategories) : \E r \in after : r.id = tc.todo_id

\* INSERT INTO todos: a row whose id a row already has violates the primary key.
createTodo(d, data, id, t) ==
    LET row == TodoRow(id, data, t)
    IN IF \E r \in d.todos : r.id = id
       THEN Throw(d, <<"Failed", "to", "create", "todo">>)
       ELSE Return([d EXCEPT !.todos = @ \cup {row}], {row})

\* updateTodo without the user_id condition of its WHERE clause
updateTodoOfAnyUser(d, todoId, userId, data, t) ==
    LET updateData == ("updated_at" :> t) @@ data
        match == {r \in d.todos : r.id = todoId}
        result == {SetColumns(r, updateData) : r \in match}
    IN Return([d EXCEPT !.todos = (@ \ match) \cup result], First(result))

updateTodo(d, todoId, userId, data, t) ==
    LET updateData == ("updated_at" :> t) @@ data
        match == {r \in d.todos : r.id = todoId /\ r.user_id = userId}
        result == {SetColumns(r, updateData) : r \in match}
    IN IF ConstraintsHold(d, match, result)
       THEN Return([d EXCEPT !.todos = (@ \ match) \cup result], First(result))
       ELSE Throw(d, FailedToUpdateTodo)

toggleTodoCompletion(d, todoId, userId, t) ==
    LET todo == getTodoById(d, todoId, userId).value
    IN IF todo = null THEN Return(d, null)
       ELSE updateTodo(d, todoId, userId,
                [is_completed |-> ~(CHOOSE r \in todo : TRUE).is_completed], t)

\* deleteTodo answering result.length >= 0
deleteTodoAlwaysTrue(d, todoId, userId) ==
    LET result == {r \in d.todos : r.id = todoId /\ r.user_id = userId}
    IN Return(OnDeleteCascade([d EXCEPT !.todos = @ \ result]), Cardinality(result) >= 0)

deleteTodo(d, todoId, userId) ==
    LET result == {r \in d.todos : r.id = todoId /\ r.user_id = userId}
    IN Return(OnDeleteCascade([d EXCEPT !.todos = @ \ result]), Cardinality(result) > 0)

bulkUpdateTodos(d, todoIds, userId, data, t) ==
    LET updateData == ("updated_at" :> t) @@ data
        match == {r \in d.todos : r.id \in todoIds /\ r.user_id = userId}
        result == {SetColumns(r, updateData) : r \in match}
    IN IF ConstraintsHold(d, match, result)
       THEN Return([d EXCEPT !.todos = (@ \ match) \cup result], Cardinality(result))
       ELSE Throw(d, <<"Failed", "to", "bulk", "update", "todos">>)

\* The filter of getTodoStats' overdue count without its !t.is_completed
overdueOfAnyCompletion(todo, t) ==
    todo.due_date # NULL /\ todo.due_date < t

\* !t.is_completed && t.due_date && new Date(t.due_date) < new Date()
overdue(todo, t) ==
    ~todo.is_completed /\ todo.due_date # NULL /\ todo.due_date < t

\* getTodoStats: one SELECT of the user's todos, counted in memory at time t.
getTodoStats(d, userId, t) ==
    LET allTodos == {r \in d.todos : r.user_id = userId}
        total == Cardinality(allTodos)
        completed == Cardinality({r \in allTodos : r.is_completed})
    IN Return(d, [total |-> total,
                  completed |-> completed,
                  pending |-> total - completed,
                  overdue |-> Cardinality({r \in allTodos : overdue(r, t)})])

\* ------------------------------------------------------------------ category queries
getUserCategories(d, userId) ==
    Return(d, {c \in d.categories : c.user_id = userId})

getCategoryById(d, categoryId, userId) ==
    Return(d, First({c \in d.categories : c.id = categoryId /\ c.user_id = userId}))

createCategory(d, data, id, t) ==
    LET row == CategoryRow(id, data, t)
    IN Return([d EXCEPT !.categories = @ \cup {row}], {row})

FailedToUpdateCategory == <<"Failed", "to", "update", "category">>

\* What the store checks when UPDATE categories turns the rows of match into
\* the rows of result: the primary key and the foreign key of
\* todo_categories.category_id, which has no ON UPDATE action.
CategoryConstraintsHold(d, match, result) ==
    LET after == (d.categories \ match) \cup result
    IN /\ Cardinality({r.id : r \in after}) = Cardinality(d.categories)
       /\ \A tc \in Rows(d.todoCategories) : \E r \in after : r.id = tc.category_id

updateCategory(d, categoryId, userId, data) ==
    LET match == {r \in d.categories : r.id = categoryId /\ r.user_id = userId}
        result == {SetColumns(r, data) : r \in match}
    IN IF CategoryConstraintsHold(d, match, result)
       THEN Return([d EXCEPT !.categories = (@ \ match) \cup result], First(result))
       ELSE Throw(d, FailedToUpdateCategory)

deleteCategory(d, categoryId, userId) ==
    LET result == {r \in d.categories : r.id = categoryId /\ r.user_id = userId}
    IN Return(OnDeleteCascade([d EXCEPT !.categories = @ \ result]),
              Cardinality(result) > 0)

\* ------------------------------------------------------------------ association queries
\* categoryIds.map(categoryId => ({todo_id: todoId, category_id: categoryId}))
AssociationValues(todoId, categoryIds) ==
    [i \in DOMAIN categoryIds |-> [todo_id |-> todoId, category_id |-> categoryIds[i]]]

DatabaseError == <<"insert", "or", "update", "on", "table", "violates", "foreign", "key", "constraint">>

addCategoriesToTodo(d, todoId, categoryIds, userId) ==
    LET todo == getTodoById(d, todoId, userId).value
        validCategoryIds == {c.id : c \in getUserCategories(d, userId).value}
        invalidCategories == SelectSeq(categoryIds, LAMBDA id : id \notin validCategoryIds)
        values == AssociationValues(todoId, categoryIds)
    IN TryCatch(
        IF todo = null THEN Throw(d, TodoNotFoundOrAccessDenied)
        ELSE IF Len(invalidCategories) > 0 THEN Throw(d, CategoriesNotFoundOrAccessDenied)
        ELSE IF ~ForeignKeysHold(d, values) THEN Throw(d, DatabaseError)
        ELSE Return([d EXCEPT !.todoCategories = onConflictDoNothing(@, values)], null),
        FailedToAddCategories)

removeCategoriesFromTodo(d, todoId, categoryIds, userId) ==
    LET todo == getTodoById(d, todoId, userId).value
    IN TryCatch(
        IF todo = null THEN Throw(d, TodoNotFoundOrAccessDenied)
        ELSE Return([d EXCEPT !.todoCategories =
                        DeleteByTodoAndCategories(@, todoId, categoryIds)], null),
        FailedToRemoveCategories)

replaceTodoCategories(d, todoId, categoryIds, userId) ==
    LET todo == getTodoById(d, todoId, userId).value
        removed == [d EXCEPT !.todoCategories = DeleteByTodo(@, todoId)]
    IN TryCatch(
        IF todo = null THEN Throw(d, TodoNotFoundOrAccessDenied)
        ELSE IF Len(categoryIds) > 0
             THEN addCategoriesToTodo(removed, todoId, categoryIds, userId)
             ELSE Return(removed, null),
        FailedToReplaceCategories)

getTodoCategories(d, todoId, userId) ==
    LET todo == getTodoById(d, todoId, userId).value
    IN TryCatch(
        IF todo = null THEN Throw(d, TodoNotFoundOrAccessDenied)
        ELSE Return(d, JoinedCategories(d, todoId)),
        FailedToFetchTodoCategories)

\* ------------------------------------------------------------------ responses
\* successResponse(data, status) and errorResponse(message, status, validation)
successResponse(data, status) == [status |-> status, body |-> data]

errorResponse(message, status, validation) ==
    [status |-> status,
     body |-> [error |-> message, code |-> status, validation |-> validation]]

\* handleValidationError: one {field, message} entry per issue of the ZodError.
handleValidationError(error) ==
    errorResponse(<<"Validation", "failed">>, 400,
        [i \in DOMAIN error.issues |->
            [field |-> error.issues[i].path, message |-> error.issues[i].message]])

\* A thrown value: an Error with a message, or a ZodError with its issues.
Error(message) == [name |-> "Error", message |-> message, issues |-> <<>>]

ZodError(issues) == [name |-> "ZodError", message |-> <<>>, issues |-> issues]

\* A thrown value that is no instance of Error (a string, an object).
Thrown(value) == [name |-> "other", message |-> value, issues |-> <<>>]

\* handleError with the 'unauthorized' test made before the 'not found' test
handleErrorUnauthorizedFirst(error) ==
    IF error.name = "ZodError" THEN handleValidationError(error)
    ELSE IF error.name # "Error"
         THEN errorResponse(<<"An", "unexpected", "error", "occurred">>, 500, <<>>)
    ELSE IF \/ includes(error.message, <<"unauthorized">>)
            \/ includes(error.message, <<"No", "user", "found">>)
         THEN errorResponse(<<"Unauthorized", "access">>, 401, <<>>)
    ELSE IF includes(error.message, <<"not", "found">>)
         THEN errorResponse(<<"Resource", "not", "found">>, 404, <<>>)
    ELSE IF includes(error.message, <<"forbidden">>)
         THEN errorResponse(<<"Access", "forbidden">>, 403, <<>>)
    ELSE errorResponse(error.message, 500, <<>>)

handleError(error) ==
    IF error.name = "ZodError" THEN handleValidationError(error)
    ELSE IF error.name # "Error"
         THEN errorResponse(<<"An", "unexpected", "error", "occurred">>, 500, <<>>)
    ELSE IF includes(error.message, <<"not", "found">>)
         THEN errorResponse(<<"Resource", "not", "found">>, 404, <<>>)
    ELSE IF \/ includes(error.message, <<"unauthorized">>)
            \/ includes(error.message, <<"No", "user", "found">>)
         THEN errorResponse(<<"Unauthorized", "access">>, 401, <<>>)
    ELSE IF includes(error.message, <<"forbidden">>)
         THEN errorResponse(<<"Access", "forbidden">>, 403, <<>>)
    ELSE errorResponse(error.message, 500, <<>>)

\* ------------------------------------------------------------------ authentication
\* The session of a request: the user's id, or none.
NoSession == "none"

\* getUserId that answers user.id without the check of getAuthenticatedUser
getUserIdUnchecked(session) ==
    [ok |-> TRUE, value |-> session, error |-> <<>>]

getUserId(session) ==
    IF session = NoSession THEN [ok |-> FALSE, value |-> "", error |-> NoUserFoundInSession]
    ELSE [ok |-> TRUE, value |-> session, error |-> <<>>]

\* ------------------------------------------------------------------ validation
\* A JSON value of a request body is [type, value]; a string in ISO 8601
\* datetime form has type "datetime" and the instant it denotes as its value.
priorityEnum == <<<<"1">>, <<"2">>, <<"3">>, <<"4">>>>

parseInt(val) == CHOOSE n \in DOMAIN priorityEnum : priorityEnum[n] = val

\* z.string().uuid(): the ids are uuids, and 0 stands for a string that is none.
IsUuid(id) == id # 0

\* The issues of one key of createTodoSchema / updateTodoSchema (nullable:
\* dueDate may be null), as a sequence of at most one issue.
FieldIssues(key, v, nullable) ==
    LET issue(message) == <<[path |-> key, message |-> message]>>
    IN IF key = "title"
       THEN IF v.type # "string" THEN issue(<<"Expected", "string">>)
            ELSE IF Len(v.value) < 1 THEN issue(<<"Title", "is", "required">>)
            ELSE IF Len(v.value) > 200
                 THEN issue(<<"Title", "must", "be", "200", "characters", "or", "less">>)
            ELSE <<>>
       ELSE IF key = "description"
       THEN IF v.type # "string" THEN issue(<<"Expected", "string">>) ELSE <<>>
       ELSE IF key = "priority"
       THEN IF v.type = "string" /\ \E n \in DOMAIN priorityEnum : priorityEnum[n] = v.value
            THEN <<>> ELSE issue(<<"Invalid", "enum", "value">>)
       ELSE IF key = "dueDate"
       THEN IF v.type = "datetime" \/ (nullable /\ v.type = "null")
            THEN <<>> ELSE issue(<<"Invalid", "datetime">>)
       ELSE IF key = "isCompleted"
       THEN IF v.type # "boolean" THEN issue(<<"Expected", "boolean">>) ELSE <<>>
       ELSE IF v.type = "array" /\ \A i \in DOMAIN v.value : IsUuid(v.value[i])
            THEN <<>> ELSE issue(<<"Invalid", "uuid">>)

\* The parsed value of a valid key.
FieldValue(key, v) ==
    IF key = "priority" THEN parseInt(v.value)
    ELSE IF key = "dueDate" THEN (IF v.type = "null" THEN NULL ELSE v.value)
    ELSE v.value

RECURSIVE Concat(_, _)
\* The issues of the keys of keys, in order.
Concat(keys, issuesOf) ==
    IF keys = <<>> THEN <<>>
    ELSE issuesOf[Head(keys)] \o Concat(Tail(keys), issuesOf)

CreateKeys == <<"title", "description", "priority", "dueDate", "categoryIds">>

UpdateKeys == <<"title", "description", "priority", "dueDate", "isCompleted", "categoryIds">>

\* createTodoSchema.parse(body): title is required, unknown keys are stripped.
createTodoSchema(body) ==
    LET keys == SelectSeq(CreateKeys, LAMBDA k : k \in DOMAIN body)
        issuesOf == [k \in Range(CreateKeys) |->
                        IF k \in DOMAIN body THEN FieldIssues(k, body[k], FALSE)
                        ELSE IF k = "title"
                             THEN <<[path |-> k, message |-> <<"Required">>]>>
                             ELSE <<>>]
        issues == Concat(CreateKeys, issuesOf)
    IN IF issues # <<>> THEN [ok |-> FALSE, value |-> <<>>, error |-> ZodError(issues)]
       ELSE [ok |-> TRUE,
             value |-> [k \in Range(keys) |-> FieldValue(k, body[k])],
             error |-> ZodError(<<>>)]

\* updateTodoSchema without its .refine(): a body without keys parses
updateTodoSchemaUnrefined(body) ==
    LET keys == SelectSeq(UpdateKeys, LAMBDA k : k \in DOMAIN body)
        issuesOf == [k \in Range(UpdateKeys) |->
                        IF k \in DOMAIN body THEN FieldIssues(k, body[k], TRUE) ELSE <<>>]
        issues == Concat(UpdateKeys, issuesOf)
    IN IF issues # <<>> THEN [ok |-> FALSE, value |-> <<>>, error |-> ZodError(issues)]
       ELSE [ok |-> TRUE,
             value |-> [k \in Range(keys) |-> FieldValue(k, body[k])],
             error |-> ZodError(<<>>)]

\* updateTodoSchema.parse(body): every key is optional, unknown keys are
\* stripped, and the refinement wants at least one key in what is left.
updateTodoSchema(body) ==
    LET keys == SelectSeq(UpdateKeys, LAMBDA k : k \in DOMAIN body)
        issuesOf == [k \in Range(UpdateKeys) |->
                        IF k \in DOMAIN body THEN FieldIssues(k, body[k], TRUE) ELSE <<>>]
        issues == Concat(UpdateKeys, issuesOf)
        refined == IF issues = <<>> /\ keys = <<>>
                   THEN <<[path |-> "",
                           message |-> <<"At", "least", "one", "field", "must", "be",
                                         "provided", "for", "update">>]>>
                   ELSE issues
    IN IF refined # <<>> THEN [ok |-> FALSE, value |-> <<>>, error |-> ZodError(refined)]
       ELSE [ok |-> TRUE,
             value |-> [k \in Range(keys) |-> FieldValue(k, body[k])],
             error |-> ZodError(<<>>)]

\* hexColorRegex = /^#([A-Fa-f0-9]{6}|[A-Fa-f0-9]{3})$/
HexDigits ==
    {"0", "1", "2", "3", "4", "5", "6", "7", "8", "9",
     "a", "b", "c", "d", "e", "f", "A", "B", "C", "D", "E", "F"}

hexColorRegex(text) ==
    /\ Len(text) \in {4, 7}
    /\ text[1] = "#"
    /\ \A i \in 2..Len(text) : text[i] \in HexDigits

DefaultColor == <<"#", "3", "B", "8", "2", "F", "6">>

\* createCategorySchema.parse(body)
createCategorySchema(body) ==
    LET nameIssues ==
            IF "name" \notin DOMAIN body
            THEN <<[path |-> "name", message |-> <<"Required">>]>>
            ELSE IF body.name.type # "string"
            THEN <<[path |-> "name", message |-> <<"Expected", "string">>]>>
            ELSE IF Len(body.name.value) < 1
            THEN <<[path |-> "name", message |-> <<"Category", "name", "is", "required">>]>>
            ELSE IF Len(body.name.value) > 50
            THEN <<[path |-> "name",
                    message |-> <<"Category", "name", "must", "be", "50", "characters",
                                  "or", "less">>]>>
            ELSE <<>>
        colorIssues ==
            IF "color" \notin DOMAIN body THEN <<>>
            ELSE IF body.color.type = "string" /\ hexColorRegex(body.color.value) THEN <<>>
            ELSE <<[path |-> "color",
                    message |-> <<"Color", "must", "be", "a", "valid", "hex", "color",
                                  "code">>]>>
        issues == nameIssues \o colorIssues
    IN IF issues # <<>> THEN [ok |-> FALSE, value |-> <<>>, error |-> ZodError(issues)]
       ELSE [ok |-> TRUE,
             value |-> [name |-> body.name.value,
                        color |-> IF "color" \in DOMAIN body THEN body.color.value
                                  ELSE DefaultColor],
             error |-> ZodError(<<>>)]

\* ------------------------------------------------------------------ request handlers
\* A handler is an operator from the database, the request's session and its
\* input to [db, response].
Respond(d, response) == [db |-> d, response |-> response]

\* todoWithCategories || todo
OrElse(value, other) == IF value = null THEN other ELSE value

\* dueDate > now: the comparison turned around
dueDateAfterNow(dueDate, t) == dueDate > t

\* dueDate < now, of the instant the string denotes and the handler's new Date()
dueDateBeforeNow(dueDate, t) == dueDate < t

\* validatedData.priority || 1
priorityOrLow(validatedData) ==
    IF "priority" \in DOMAIN validatedData THEN validatedData.priority ELSE 1

\* validatedData.priority || 2
priorityOrMedium(validatedData) ==
    IF "priority" \in DOMAIN validatedData THEN validatedData.priority ELSE 2

\* POST /api/todos; id is the uuid the new row gets.
POST_todos(d, session, body, id, t) ==
    LET user == getUserId(session)
        userId == user.value
        parsed == createTodoSchema(body)
        validatedData == parsed.value
        hasDueDate == "dueDate" \in DOMAIN validatedData
        created == createTodo(d,
                      [user_id |-> userId,
                       title |-> validatedData.title,
                       description |-> IF "description" \in DOMAIN validatedData
                                          /\ validatedData.description # <<>>
                                       THEN validatedData.description ELSE NULLTEXT,
                       priority |-> priorityOrMedium(validatedData),
                       due_date |-> IF hasDueDate THEN validatedData.dueDate ELSE NULL,
                       is_completed |-> FALSE],
                      id, t)
        newTodo == created.value
        withCategories == "categoryIds" \in DOMAIN validatedData
                            /\ Len(validatedData.categoryIds) > 0
        replaced == replaceTodoCategories(created.db, id, validatedData.categoryIds, userId)
        after == IF withCategories THEN replaced.db ELSE created.db
    IN IF ~user.ok THEN Respond(d, handleError(Error(user.error)))
       ELSE IF ~parsed.ok THEN Respond(d, handleError(parsed.error))
       ELSE IF hasDueDate /\ dueDateBeforeNow(validatedData.dueDate, t)
       THEN Respond(d, errorResponse(<<"Due", "date", "cannot", "be", "in", "the", "past">>,
                                     400, <<>>))
       ELSE IF withCategories /\ ~replaced.ok
       THEN Respond(replaced.db, handleError(Error(replaced.error)))
       ELSE Respond(after,
                successResponse(
                    [todo |-> OrElse(getTodoWithCategories(after, id, userId).value, newTodo)],
                    201))

\* The columns PATCH sets from the validated body.
UpdateColumns ==
    [title |-> "title", description |-> "description", priority |-> "priority",
     dueDate |-> "due_date", isCompleted |-> "is_completed"]

\* existingTodo.is_completed read as false whatever the row holds
existingTodoNeverCompleted(existingTodo) == FALSE

\* existingTodo.is_completed
existingTodoIsCompleted(existingTodo) ==
    (CHOOSE r \in existingTodo : TRUE).is_completed

\* PATCH /api/todos/[id] from its request.json() on: existingTodo is the row
\* the handler's getTodoById read, d the database its statements now run on.
PATCH_existingTodo(d, userId, existingTodo, id, body, t) ==
    LET parsed == updateTodoSchema(body)
        validatedData == parsed.value
        pastDueDate ==
            /\ "dueDate" \in DOMAIN validatedData
            /\ validatedData.dueDate # NULL
            /\ ~existingTodoIsCompleted(existingTodo)
            /\ dueDateBeforeNow(validatedData.dueDate, t)
        keys == {k \in DOMAIN UpdateColumns : k \in DOMAIN validatedData}
        updateData == [c \in {UpdateColumns[k] : k \in keys} |->
                          validatedData[CHOOSE k \in keys : UpdateColumns[k] = c]]
        updated == updateTodo(d, id, userId, updateData, t)
        updatedTodo == updated.value
        withCategories == "categoryIds" \in DOMAIN validatedData
        replaced == replaceTodoCategories(updated.db, id, validatedData.categoryIds, userId)
        after == IF withCategories THEN replaced.db ELSE updated.db
    IN IF ~parsed.ok THEN Respond(d, handleError(parsed.error))
       ELSE IF pastDueDate
       THEN Respond(d, errorResponse(<<"Due", "date", "cannot", "be", "in", "the", "past">>,
                                     400, <<>>))
       ELSE IF updatedTodo = null
       THEN Respond(updated.db,
                errorResponse(<<"Failed", "to", "update", "todo">>, 500, <<>>))
       ELSE IF withCategories /\ ~replaced.ok
       THEN Respond(replaced.db, handleError(Error(replaced.error)))
       ELSE Respond(after,
                successResponse(
                    [todo |-> OrElse(getTodoWithCategories(after, id, userId).value,
                                     updatedTodo)],
                    200))

\* PATCH /api/todos/[id]
PATCH_todos_id(d, session, id, body, t) ==
    LET user == getUserId(session)
        userId == user.value
        existingTodo == getTodoById(d, id, userId).value
    IN IF ~user.ok THEN Respond(d, handleError(Error(user.error)))
       ELSE IF existingTodo = null
       THEN Respond(d, errorResponse(<<"Todo", "not", "found">>, 404, <<>>))
       ELSE PATCH_existingTodo(d, userId, existingTodo, id, body, t)

\* DELETE /api/todos/[id] from its deleteTodo on.
DELETE_existingTodo(d, userId, id) ==
    LET deleted == deleteTodo(d, id, userId)
    IN IF ~deleted.value
       THEN Respond(deleted.db,
                errorResponse(<<"Failed", "to", "delete", "todo">>, 500, <<>>))
       ELSE Respond(deleted.db, successResponse([success |-> TRUE], 200))

\* DELETE /api/todos/[id]
DELETE_todos_id(d, session, id) ==
    LET user == getUserId(session)
        userId == user.value
        existingTodo == getTodoById(d, id, userId).value
    IN IF ~user.ok THEN Respond(d, handleError(Error(user.error)))
       ELSE IF existingTodo = null
       THEN Respond(d, errorResponse(<<"Todo", "not", "found">>, 404, <<>>))
       ELSE DELETE_existingTodo(d, userId, id)

\* GET /api/categories
GET_categories(d, session) ==
    LET user == getUserId(session)
        cats == getUserCategories(d, user.value).value
    IN IF ~user.ok THEN Respond(d, handleError(Error(user.error)))
       ELSE Respond(d, successResponse(
                [categories |-> cats, totalCount |-> Cardinality(cats)], 200))

\* POST /api/categories; id is the uuid the new row gets.
POST_categories(d, session, body, id, t) ==
    LET user == getUserId(session)
        parsed == createCategorySchema(body)
        validatedData == parsed.value
        created == createCategory(d,
                      [user_id |-> user.value, name |-> validatedData.name,
                       color |-> validatedData.color], id, t)
    IN IF ~user.ok THEN Respond(d, handleError(Error(user.error)))
       ELSE IF ~parsed.ok THEN Respond(d, handleError(parsed.error))
       ELSE Respond(created.db, successResponse([category |-> created.value], 201))

\* DELETE /api/categories/[id] from its deleteCategory on.
DELETE_existingCategory(d, userId, id) ==
    LET deleted == deleteCategory(d, id, userId)
    IN IF ~deleted.value
       THEN Respond(deleted.db,
                errorResponse(<<"Failed", "to", "delete", "category">>, 500, <<>>))
       ELSE Respond(deleted.db, successResponse([success |-> TRUE], 200))

\* DELETE /api/categories/[id]
DELETE_categories_id(d, session, id) ==
    LET user == getUserId(session)
        userId == user.value
        existingCategory == getCategoryById(d, id, userId).value
    IN IF ~user.ok THEN Respond(d, handleError(Error(user.error)))
       ELSE IF existingCategory = null
       THEN Respond(d, errorResponse(<<"Category", "not", "found">>, 404, <<>>))
       ELSE DELETE_existingCategory(d, userId, id)

\* ------------------------------------------------------------------ inputs
\* The arguments the calls are made with.
NewTodos == {[user_id |-> u, title |-> <<"a">>] : u \in Users}

TodoUpdates ==
    {<<>>, [is_completed |-> TRUE], [title |-> <<"b">>, priority |-> 3],
     [due_date |-> 1], [due_date |-> NULL]}

NewCategories == {[user_id |-> u, name |-> <<"a">>, color |-> DefaultColor] : u \in Users}

CategoryUpdates == {[name |-> <<"b">>]}

\* The lists of category ids, repeats included, of at most MaxLen ids.
CategoryIdLists ==
    UNION {[1..n -> CategoryIds] : n \in 0..MaxLen}

TodoFilters ==
    {<<>>, [isCompleted |-> TRUE]} \cup {[categoryId |-> c] : c \in CategoryIds}

TodoSorts == {<<>>, [field |-> "title", direction |-> "asc"]}

\* The sessions and bodies the requests are made with.
Sessions == Users \cup {NoSession}

String(text) == [type |-> "string", value |-> text]

Array(ids) == [type |-> "array", value |-> ids]

CreateTodoBodies ==
    {<<>>, [title |-> String(<<"a">>)], [title |-> String(<<>>)]}
    \cup {[title |-> String(<<"a">>), categoryIds |-> Array(cs)] : cs \in CategoryIdLists}

UpdateTodoBodies ==
    {<<>>, [isCompleted |-> [type |-> "boolean", value |-> TRUE]]}
    \cup {[categoryIds |-> Array(cs)] : cs \in CategoryIdLists}

CreateCategoryBodies == {<<>>, [name |-> String(<<"a">>)]}

\* ------------------------------------------------------------------ calls
\* A call of a query-layer function: the database becomes the outcome's, pre
\* keeps the database the call started from and last what was called and what
\* it answered.
Call(op, id, userId, arg, outcome) ==
    /\ UNCHANGED running
    /\ db' = outcome.db
    /\ pre' = db
    /\ last' = [op |-> op, id |-> id, userId |-> userId, arg |-> arg,
                ok |-> outcome.ok, value |-> outcome.value, error |-> outcome.error]

\* uuid("id").defaultRandom(): an id no row ever had.
CallCreateTodo(data) ==
    /\ uuid.todos < MaxTodos
    /\ uuid' = [uuid EXCEPT !.todos = @ + 1]
    /\ Call("createTodo", uuid.todos + 1, data.user_id, data,
            createTodo(db, data, uuid.todos + 1, now))
    /\ UNCHANGED now

CallCreateCategory(data) ==
    /\ uuid.categories < MaxCategories
    /\ uuid' = [uuid EXCEPT !.categories = @ + 1]
    /\ Call("createCategory", uuid.categories + 1, data.user_id, data,
            createCategory(db, data, uuid.categories + 1, now))
    /\ UNCHANGED now

CallGetUserTodos(userId, filters, sort) ==
    /\ \E result \in getUserTodos(db, userId, filters, sort) :
            Call("getUserTodos", 0, userId, [filters |-> filters, sort |-> sort],
                 Return(db, result))
    /\ UNCHANGED <<uuid, now>>

CallGetTodoById(todoId, userId) ==
    /\ Call("getTodoById", todoId, userId, <<>>, getTodoById(db, todoId, userId))
    /\ UNCHANGED <<uuid, now>>

CallGetTodoWithCategories(todoId, userId) ==
    /\ Call("getTodoWithCategories", todoId, userId, <<>>,
            getTodoWithCategories(db, todoId, userId))
    /\ UNCHANGED <<uuid, now>>

CallUpdateTodo(todoId, userId, data) ==
    /\ Call("updateTodo", todoId, userId, data, updateTodo(db, todoId, userId, data, now))
    /\ UNCHANGED <<uuid, now>>

CallToggleTodoCompletion(todoId, userId) ==
    /\ Call("toggleTodoCompletion", todoId, userId, <<>>,
            toggleTodoCompletion(db, todoId, userId, now))
    /\ UNCHANGED <<uuid, now>>

CallDeleteTodo(todoId, userId) ==
    /\ Call("deleteTodo", todoId, userId, <<>>, deleteTodo(db, todoId, userId))
    /\ UNCHANGED <<uuid, now>>

CallBulkUpdateTodos(todoIds, userId, data) ==
    /\ Call("bulkUpdateTodos", todoIds, userId, data,
            bulkUpdateTodos(db, todoIds, userId, data, now))
    /\ UNCHANGED <<uuid, now>>

CallGetTodoStats(userId) ==
    /\ Call("getTodoStats", 0, userId, <<>>, getTodoStats(db, userId, now))
    /\ UNCHANGED <<uuid, now>>

CallGetUserCategories(userId) ==
    /\ Call("getUserCategories", 0, userId, <<>>, getUserCategories(db, userId))
    /\ UNCHANGED <<uuid, now>>

CallGetCategoryById(categoryId, userId) ==
    /\ Call("getCategoryById", categoryId, userId, <<>>,
            getCategoryById(db, categoryId, userId))
    /\ UNCHANGED <<uuid, now>>

CallUpdateCategory(categoryId, userId, data) ==
    /\ Call("updateCategory", categoryId, userId, data,
            updateCategory(db, categoryId, userId, data))
    /\ UNCHANGED <<uuid, now>>

CallDeleteCategory(categoryId, userId) ==
    /\ Call("deleteCategory", categoryId, userId, <<>>,
            deleteCategory(db, categoryId, userId))
    /\ UNCHANGED <<uuid, now>>

CallAddCategoriesToTodo(todoId, categoryIds, userId) ==
    /\ Call("addCategoriesToTodo", todoId, userId, categoryIds,
            addCategoriesToTodo(db, todoId, categoryIds, userId))
    /\ UNCHANGED <<uuid, now>>

CallRemoveCategoriesFromTodo(todoId, categoryIds, userId) ==
    /\ Call("removeCategoriesFromTodo", todoId, userId, categoryIds,
            removeCategoriesFromTodo(db, todoId, categoryIds, userId))
    /\ UNCHANGED <<uuid, now>>

CallReplaceTodoCategories(todoId, categoryIds, userId) ==
    /\ Call("replaceTodoCategories", todoId, userId, categoryIds,
            replaceTodoCategories(db, todoId, categoryIds, userId))
    /\ UNCHANGED <<uuid, now>>

CallGetTodoCategories(todoId, userId) ==
    /\ Call("getTodoCategories", todoId, userId, <<>>,
            getTodoCategories(db, todoId, userId))
    /\ UNCHANGED <<uuid, now>>

\* A request: the database becomes the one the handler leaves, and last keeps
\* the request and the response.
Request(op, id, session, body, result) ==
    /\ UNCHANGED running
    /\ db' = result.db
    /\ pre' = db
    /\ last' = [op |-> op, id |-> id, userId |-> session, arg |-> body,
                ok |-> result.response.status < 400, value |-> result.response,
                error |-> <<>>]

RequestPostTodos(session, body) ==
    /\ uuid.todos < MaxTodos
    /\ LET result == POST_todos(db, session, body, uuid.todos + 1, now)
       IN /\ Request("POST /todos", uuid.todos + 1, session, body, result)
          /\ uuid' = IF result.db.todos # db.todos
                     THEN [uuid EXCEPT !.todos = @ + 1] ELSE uuid
    /\ UNCHANGED now

RequestPatchTodo(session, id, body) ==
    /\ Request("PATCH /todos/id", id, session, body,
               PATCH_todos_id(db, session, id, body, now))
    /\ UNCHANGED <<uuid, now>>

RequestDeleteTodo(session, id) ==
    /\ Request("DELETE /todos/id", id, session, <<>>, DELETE_todos_id(db, session, id))
    /\ UNCHANGED <<uuid, now>>

RequestGetCategories(session) ==
    /\ Request("GET /categories", 0, session, <<>>, GET_categories(db, session))
    /\ UNCHANGED <<uuid, now>>

RequestPostCategories(session, body) ==
    /\ uuid.categories < MaxCategories
    /\ LET result == POST_categories(db, session, body, uuid.categories + 1, now)
       IN /\ Request("POST /categories", uuid.categories + 1, session, body, result)
          /\ uuid' = IF result.db.categories # db.categories
                     THEN [uuid EXCEPT !.categories = @ + 1] ELSE uuid
    /\ UNCHANGED now

RequestDeleteCategory(session, id) ==
    /\ Request("DELETE /categories/id", id, session, <<>>,
               DELETE_categories_id(db, session, id))
    /\ UNCHANGED <<uuid, now>>

\* Time passes between two calls.
Tick ==
    /\ now < MaxTime
    /\ now' = now + 1
    /\ pre' = db
    /\ last' = [op |-> "tick", id |-> 0, userId |-> "", arg |-> <<>>,
                ok |-> TRUE, value |-> null, error |-> <<>>]
    /\ UNCHANGED <<db, uuid, running>>

\* No replaceTodoCategories call is between two of its awaits.
Idle == [pc |-> "idle", todoId |-> 0, categoryIds |-> <<>>, userId |-> "", old |-> {}]

\* ------------------------------------------------------------------ specification
Init ==
    /\ running = Idle
    /\ db = EmptyDb
    /\ uuid = [todos |-> 0, categories |-> 0]
    /\ now = 0
    /\ pre = EmptyDb
    /\ last = [op |-> "init", id |-> 0, userId |-> "", arg |-> <<>>,
               ok |-> TRUE, value |-> null, error |-> <<>>]

\* The association layer: todos and categories come and go, and the
\* association calls are made with every todo id, user and list of category ids.
Next ==
    \/ \E data \in NewTodos : CallCreateTodo(data)
    \/ \E data \in NewCategories : CallCreateCategory(data)
    \/ \E t \in TodoIds, u \in Users : CallDeleteTodo(t, u)
    \/ \E c \in CategoryIds, u \in Users : CallDeleteCategory(c, u)
    \/ \E t \in TodoIds, u \in Users, cs \in CategoryIdLists :
            CallAddCategoriesToTodo(t, cs, u)
    \/ \E t \in TodoIds, u \in Users, cs \in CategoryIdLists :
            CallRemoveCategoriesFromTodo(t, cs, u)
    \/ \E t \in TodoIds, u \in Users, cs \in CategoryIdLists :
            CallReplaceTodoCategories(t, cs, u)
    \/ \E t \in TodoIds, u \in Users : CallGetTodoCategories(t, u)

Spec == Init /\ [][Next]_vars

\* Ownership: both users create rows, user "B" tags todos, and user "A" makes
\* every other call of the query layer, with every id there is.
IsolationNext ==
    \/ \E data \in NewTodos : CallCreateTodo(data)
    \/ \E data \in NewCategories : CallCreateCategory(data)
    \/ \E f \in TodoFilters, s \in TodoSorts : CallGetUserTodos("A", f, s)
    \/ \E t \in TodoIds : CallGetTodoById(t, "A")
    \/ \E t \in TodoIds : CallGetTodoWithCategories(t, "A")
    \/ \E t \in TodoIds : CallUpdateTodo(t, "A", [title |-> <<"b">>])
    \/ \E t \in TodoIds : CallDeleteTodo(t, "A")
    \/ \E ts \in SUBSET TodoIds : CallBulkUpdateTodos(ts, "A", [title |-> <<"b">>])
    \/ \E c \in CategoryIds : CallGetCategoryById(c, "A")
    \/ \E c \in CategoryIds, data \in CategoryUpdates : CallUpdateCategory(c, "A", data)
    \/ \E c \in CategoryIds : CallDeleteCategory(c, "A")
    \/ \E t \in TodoIds, cs \in CategoryIdLists : CallReplaceTodoCategories(t, cs, "A")
    \/ \E t \in TodoIds, c \in CategoryIds : CallAddCategoriesToTodo(t, <<c>>, "B")

IsolationSpec == Init /\ [][IsolationNext]_vars

\* Updates: todos are created and updated, by both users, as time passes.
UpdateNext ==
    \/ \E data \in NewTodos : CallCreateTodo(data)
    \/ \E t \in TodoIds, u \in Users, data \in TodoUpdates : CallUpdateTodo(t, u, data)
    \/ Tick

UpdateSpec == Init /\ [][UpdateNext]_vars

\* The HTTP surface: requests with and without a session, answered one at a
\* time.
HttpNext ==
    \/ \E session \in Sessions, body \in CreateTodoBodies : RequestPostTodos(session, body)
    \/ \E session \in Sessions, id \in TodoIds, body \in UpdateTodoBodies :
            RequestPatchTodo(session, id, body)
    \/ \E session \in Sessions, id \in TodoIds : RequestDeleteTodo(session, id)
    \/ \E session \in Sessions : RequestGetCategories(session)
    \/ \E session \in Sessions, body \in CreateCategoryBodies :
            RequestPostCategories(session, body)
    \/ \E session \in Sessions, id \in CategoryIds : RequestDeleteCategory(session, id)

HttpSpec == Init /\ [][HttpNext]_vars

\* ------------------------------------------------------------------ claims
\* The rows of the bag table that satisfy nothing but being of the todos in ids.
AssociationsOf(d, ids) ==
    LET rows == {tc \in Rows(d.todoCategories) : tc.todo_id \in ids}
    IN [tc \in rows |-> d.todoCategories[tc]]

\* The todo and category rows a call answered with.
ReturnedRows ==
    IF last.op = "getUserTodos" THEN Range(last.value)
    ELSE IF last.op \in {"getTodoById", "updateTodo", "getCategoryById", "updateCategory"}
    THEN last.value
    ELSE IF last.op = "getTodoWithCategories"
    THEN UNION {{r.todo} \cup r.categories : r \in last.value}
    ELSE {}

IsolationOps ==
    {"getUserTodos", "getTodoById", "getTodoWithCategories", "updateTodo", "deleteTodo",
     "bulkUpdateTodos", "getCategoryById", "updateCategory", "deleteCategory",
     "replaceTodoCategories", "addCategoriesToTodo"}

\* C1: a call of the query layer made with a user id returns no todo and no
\* category of another user, and leaves every todo and category row of the
\* other users, and every association row of their todos, as it was.
C1_OwnershipIsolation ==
    last.op \in IsolationOps =>
        LET others(rows) == {r \in rows : r.user_id # last.userId}
        IN /\ \A r \in ReturnedRows : r.user_id = last.userId
           /\ others(db.todos) = others(pre.todos)
           /\ others(db.categories) = others(pre.categories)
           /\ AssociationsOf(db, {t.id : t \in others(db.todos)})
                = AssociationsOf(pre, {t.id : t \in others(pre.todos)})

\* C1's case: "A" has called with the id of a todo of "B" that is tagged.
C1_Witness ==
    /\ last.op \in {"updateTodo", "deleteTodo", "getTodoWithCategories",
                    "replaceTodoCategories"}
    /\ last.userId = "A"
    /\ \E t \in pre.todos : t.id = last.id /\ t.user_id = "B"
    /\ AssociationsOf(pre, {last.id}) # EmptyBag

\* The user has no todo / no category of that id: there is none, or it is
\* another user's.
NoTodoOf(d, id, userId) == ~\E t \in d.todos : t.id = id /\ t.user_id = userId

NoCategoryOf(d, id, userId) == ~\E c \in d.categories : c.id = id /\ c.user_id = userId

CategoryIdsOf(d, userId) == {c.id : c \in {x \in d.categories : x.user_id = userId}}

\* The category ids of the association rows of a todo.
TagsOf(d, todoId) ==
    {tc.category_id : tc \in {r \in Rows(d.todoCategories) : r.todo_id = todoId}}

\* C3 as claimed: a replaceTodoCategories call for a todo that is not the
\* user's, or with a category id that is no category of the user, fails and
\* leaves the association rows of the todo as they were.
C3_ValidatesBeforeMutating ==
    (/\ last.op = "replaceTodoCategories"
     /\ \/ NoTodoOf(pre, last.id, last.userId)
        \/ ~(Range(last.arg) \subseteq CategoryIdsOf(pre, last.userId)))
    => /\ ~last.ok
       /\ AssociationsOf(db, {last.id}) = AssociationsOf(pre, {last.id})

\* C5: after a successful replaceTodoCategories(todo, L, user) the category
\* ids of the todo's association rows are the ids of L, and the association
\* rows of the other todos, the todos and the categories are as before.
C5_ReplaceSetsExactly ==
    (last.op = "replaceTodoCategories" /\ last.ok) =>
        /\ TagsOf(db, last.id) = Range(last.arg)
        /\ AssociationsOf(db, TodoIds \ {last.id}) = AssociationsOf(pre, TodoIds \ {last.id})
        /\ db.todos = pre.todos
        /\ db.categories = pre.categories

\* C5's case: a successful replace that changes the tags of a tagged todo
\* while another todo is tagged.
C5_Witness ==
    /\ last.op = "replaceTodoCategories" /\ last.ok
    /\ TagsOf(pre, last.id) # {}
    /\ TagsOf(pre, last.id) # Range(last.arg)
    /\ last.arg # <<>>
    /\ AssociationsOf(pre, TodoIds \ {last.id}) # EmptyBag

C8_DeleteCategoryCascades ==
    (last.op = "deleteCategory" /\ ~NoCategoryOf(pre, last.id, last.userId)) =>
        /\ last.value = TRUE
        /\ db.categories = {c \in pre.categories : c.id # last.id}
        /\ Rows(db.todoCategories)
            = {tc \in Rows(pre.todoCategories) : tc.category_id # last.id}
        /\ \A tc \in Rows(db.todoCategories) :
                CopiesIn(tc, db.todoCategories) = CopiesIn(tc, pre.todoCategories)
        /\ db.todos = pre.todos

\* C8's case: the category deleted tagged two todos, and another tag stays.
C8_Witness ==
    /\ last.op = "deleteCategory" /\ last.value = TRUE
    /\ Cardinality({tc \in Rows(pre.todoCategories) : tc.category_id = last.id}) = 2
    /\ db.todoCategories # EmptyBag

\* C9: deleteTodo answers true exactly when the user had a todo of that id;
\* the todo and its association rows are then gone and nothing else is; on
\* false the database is as it was.
C9_DeleteTodo ==
    last.op = "deleteTodo" =>
        /\ last.value = ~NoTodoOf(pre, last.id, last.userId)
        /\ last.value =>
            /\ db.todos = {t \in pre.todos : t.id # last.id}
            /\ TagsOf(db, last.id) = {}
            /\ AssociationsOf(db, TodoIds \ {last.id})
                = AssociationsOf(pre, TodoIds \ {last.id})
            /\ db.categories = pre.categories
        /\ ~last.value => db = pre

\* C9's case: a tagged todo is deleted by its owner while another is tagged.
C9_Witness ==
    /\ last.op = "deleteTodo" /\ last.value = TRUE
    /\ TagsOf(pre, last.id) # {}
    /\ db.todoCategories # EmptyBag

\* C9's other case: deleteTodo with the id of a todo of another user.
C9_WitnessFalse ==
    /\ last.op = "deleteTodo" /\ last.value = FALSE
    /\ \E t \in pre.todos : t.id = last.id

\* C4 as claimed: a PATCH of a todo of the caller whose categoryIds hold an id
\* that is no category of the caller is answered 404.
C4_ForeignCategoryIsNotFound ==
    (/\ last.op = "PATCH /todos/id"
     /\ last.userId \in Users
     /\ ~NoTodoOf(pre, last.id, last.userId)
     /\ "categoryIds" \in DOMAIN last.arg
     /\ ~(Range(last.arg.categoryIds.value) \subseteq CategoryIdsOf(pre, last.userId)))
    => last.value.status = 404

\* C7: a POST /todos of a user with a valid body whose categoryIds are
\* categories of the user is answered 201, and getTodoWithCategories for the
\* new todo returns the categories of exactly those ids, as does the response.
C7_CreateRoundTrip ==
    (/\ last.op = "POST /todos"
     /\ last.userId \in Users
     /\ createTodoSchema(last.arg).ok
     /\ "categoryIds" \in DOMAIN last.arg
     /\ Range(last.arg.categoryIds.value) \subseteq CategoryIdsOf(pre, last.userId))
    => /\ last.value.status = 201
       /\ LET fetched == getTodoWithCategories(db, last.id, last.userId).value
          IN /\ fetched # null
             /\ \A r \in fetched :
                    {c.id : c \in r.categories} = Range(last.arg.categoryIds.value)
             /\ last.value.body.todo = fetched

\* C7's case: a todo created with two categories.
C7_Witness ==
    /\ last.op = "POST /todos"
    /\ last.value.status = 201
    /\ "categoryIds" \in DOMAIN last.arg
    /\ Cardinality(Range(last.arg.categoryIds.value)) = 2

\* The columns of a todo row other than updated_at.
DataColumns ==
    {"id", "user_id", "title", "description", "is_completed", "priority", "due_date",
     "created_at"}

\* C10: updateTodo changes the one row of that id and user: the columns of
\* data take data's values, the others stay, updated_at becomes the time of the
\* call, and the row is returned; without such a row it returns null and the
\* database is as it was.
C10_UpdateTodo ==
    last.op = "updateTodo" =>
        IF NoTodoOf(pre, last.id, last.userId)
        THEN last.value = null /\ db = pre
        ELSE LET old == CHOOSE t \in pre.todos : t.id = last.id /\ t.user_id = last.userId
             IN /\ Cardinality(last.value) = 1
                /\ \A new \in last.value :
                    /\ \A c \in DataColumns :
                            new[c] = IF c \in DOMAIN last.arg THEN last.arg[c] ELSE old[c]
                    /\ new.updated_at = now
                    /\ db.todos = (pre.todos \ {old}) \cup {new}
                /\ db.categories = pre.categories
                /\ db.todoCategories = pre.todoCategories

\* C10's case: an update without data of a todo last updated earlier, while
\* another todo is there.
C10_Witness ==
    /\ last.op = "updateTodo"
    /\ last.arg = <<>>
    /\ \E t \in pre.todos : t.id = last.id /\ t.user_id = last.userId /\ t.updated_at < now
    /\ Cardinality(pre.todos) = 2

\* ------------------------------------------------------------------ C11
\* The data updateTodo and bulkUpdateTodos may be given where the owner of a
\* todo is at stake: Partial<Omit<NewTodo, "user_id" | "created_at">> has no
\* user_id, and has the id column.
OwnerUpdates == {[is_completed |-> TRUE]} \cup {[id |-> i] : i \in TodoIds}

\* Owners: todos and categories are created, and every operation that updates
\* a todo or its categories is called with every todo id.
OwnerNext ==
    \/ \E data \in NewTodos : CallCreateTodo(data)
    \/ \E data \in NewCategories : CallCreateCategory(data)
    \/ \E t \in TodoIds, u \in Users, data \in OwnerUpdates : CallUpdateTodo(t, u, data)
    \/ \E ts \in SUBSET TodoIds, u \in Users, data \in OwnerUpdates :
            CallBulkUpdateTodos(ts, u, data)
    \/ \E t \in TodoIds, u \in Users : CallToggleTodoCompletion(t, u)
    \/ \E session \in Users, id \in TodoIds, body \in UpdateTodoBodies :
            RequestPatchTodo(session, id, body)
    \/ \E t \in TodoIds, u \in Users, c \in CategoryIds : CallAddCategoriesToTodo(t, <<c>>, u)
    \/ \E t \in TodoIds, u \in Users, c \in CategoryIds :
            CallRemoveCategoriesFromTodo(t, <<c>>, u)

OwnerSpec == Init /\ [][OwnerNext]_vars

\* The id and the owner of every todo.
Owners(d) == {<<t.id, t.user_id>> : t \in d.todos}

\* C11 as claimed: no two todos have one id, and the todos' ids and owners
\* after a PATCH, an updateTodo, a bulkUpdateTodos, a toggleTodoCompletion or a
\* category operation are the ids and owners before it.
C11_OwnerImmutable ==
    /\ \A t1, t2 \in db.todos : t1.id = t2.id => t1 = t2
    /\ last.op \in {"PATCH /todos/id", "updateTodo", "bulkUpdateTodos",
                    "toggleTodoCompletion", "addCategoriesToTodo",
                    "removeCategoriesFromTodo"}
        => Owners(db) = Owners(pre)

\* ------------------------------------------------------------------ C12
\* The todos the list is asked over: of both users, with and without a
\* description, a due date and a priority of their own.
ListTodos ==
    {[user_id |-> "A", title |-> <<"a", "b">>, priority |-> 1, due_date |-> 1],
     [user_id |-> "A", title |-> <<"b">>, description |-> <<"a">>, is_completed |-> TRUE],
     [user_id |-> "B", title |-> <<"a">>]}

\* filters: each filter alone, two together, and search strings with and
\* without the characters LIKE reads as wildcards.
ListFilters ==
    {<<>>, [isCompleted |-> TRUE], [isCompleted |-> FALSE], [priority |-> 1],
     [search |-> <<>>], [search |-> <<"a">>], [search |-> <<"b", "a">>],
     [search |-> <<"_", "b">>], [isCompleted |-> FALSE, search |-> <<"b">>]}
    \cup {[categoryId |-> c] : c \in CategoryIds}

\* sort: none, or one of the four fields in one of the two directions.
ListSorts ==
    {<<>>, [field |-> "due_date", direction |-> "asc"],
     [field |-> "due_date", direction |-> "desc"],
     [field |-> "priority", direction |-> "desc"],
     [field |-> "created_at", direction |-> "asc"],
     [field |-> "title", direction |-> "asc"]}

\* Lists: todos of both users are created as time passes, user "A" has
\* categories and tags todos, and lists with every filter and sort.
ListNext ==
    \/ \E data \in ListTodos : CallCreateTodo(data)
    \/ \E data \in {c \in NewCategories : c.user_id = "A"} : CallCreateCategory(data)
    \/ \E t \in TodoIds, c \in CategoryIds : CallAddCategoriesToTodo(t, <<c>>, "A")
    \/ \E f \in ListFilters, s \in ListSorts : CallGetUserTodos("A", f, s)
    \/ Tick

ListSpec == Init /\ [][ListNext]_vars

\* The todo satisfies every filter of filters, the search filter read as
\* "search is a substring of the title or of the description".
Satisfies(d, t, filters) ==
    /\ "isCompleted" \in DOMAIN filters => t.is_completed = filters.isCompleted
    /\ "priority" \in DOMAIN filters => t.priority = filters.priority
    /\ "search" \in DOMAIN filters =>
            \/ includes(t.title, filters.search)
            \/ t.description # NULLTEXT /\ includes(t.description, filters.search)
    /\ "categoryId" \in DOMAIN filters => filters.categoryId \in TagsOf(d, t.id)

\* seq is in the order of field and direction.
Sorted(seq, field, direction) ==
    \A i, j \in DOMAIN seq : i < j =>
        IF direction = "asc" THEN ~SortsBefore(seq[j], seq[i], field)
        ELSE ~SortsBefore(seq[i], seq[j], field)

\* C12 as claimed: getUserTodos answers, without an error, the sequence that
\* holds once each todo of the user that satisfies every filter given, and no
\* other row, in the order of the sort given, or of created_at descending.
C12_GetUserTodos ==
    last.op = "getUserTodos" =>
        /\ last.ok
        /\ Range(last.value)
            = {t \in pre.todos : t.user_id = last.userId /\ Satisfies(pre, t, last.arg.filters)}
        /\ Len(last.value) = Cardinality(Range(last.value))
        /\ IF last.arg.sort = <<>> THEN Sorted(last.value, "created_at", "desc")
           ELSE Sorted(last.value, last.arg.sort.field, last.arg.sort.direction)
        /\ db = pre

\* ------------------------------------------------------------------ GET /api/todos
\* The value searchParams.get(name) gives for a parameter the URL does not have.
JsNull == [type |-> "null", value |-> NULL]

\* todoQuerySchema.parse(queryParams): .optional() lets a key be undefined,
\* not null; status, sortBy and sortOrder are enums, priority is priorityEnum
\* and category a string.
todoQuerySchema(queryParams) ==
    LET issue(key, message) == <<[path |-> key, message |-> message]>>
        enum(key, values) ==
            IF queryParams[key].type = "string" /\ queryParams[key].value \in values
            THEN <<>> ELSE issue(key, <<"Invalid", "enum", "value">>)
        priorityIssues ==
            IF queryParams.priority.type = "null"
            THEN issue("priority", <<"Expected", "enum", "received", "null">>)
            ELSE FieldIssues("priority", queryParams.priority, FALSE)
        categoryIssues ==
            IF queryParams.category.type = "string" THEN <<>>
            ELSE issue("category", <<"Expected", "string", "received", "null">>)
        issues == enum("status", {"completed", "incomplete", "all"})
                    \o priorityIssues \o categoryIssues
                    \o enum("sortBy", {"dueDate", "priority", "createdAt", "title"})
                    \o enum("sortOrder", {"asc", "desc"})
    IN IF issues # <<>> THEN [ok |-> FALSE, value |-> <<>>, error |-> ZodError(issues)]
       ELSE [ok |-> TRUE,
             value |-> [status |-> queryParams.status.value,
                        priority |-> parseInt(queryParams.priority.value),
                        category |-> queryParams.category.value,
                        sortBy |-> queryParams.sortBy.value,
                        sortOrder |-> queryParams.sortOrder.value],
             error |-> ZodError(<<>>)]

sortFieldMap ==
    [dueDate |-> "due_date", priority |-> "priority", createdAt |-> "created_at",
     title |-> "title"]

\* GET /api/todos: searchParams holds the parameters of the URL; the handler
\* answers one of the responses of the result, one per order getUserTodos may
\* return the todos in.
GET_todos(d, session, searchParams) ==
    LET user == getUserId(session)
        get(name) == IF name \in DOMAIN searchParams THEN String(searchParams[name])
                     ELSE JsNull
        orDefault(name, default) ==
            IF name \in DOMAIN searchParams /\ searchParams[name] # ""
            THEN String(searchParams[name]) ELSE String(default)
        queryParams == [status |-> orDefault("status", "all"),
                        priority |-> get("priority"),
                        category |-> get("category"),
                        sortBy |-> orDefault("sortBy", "createdAt"),
                        sortOrder |-> orDefault("sortOrder", "desc")]
        parsed == todoQuerySchema(queryParams)
        validatedParams == parsed.value
        byStatus == IF validatedParams.status = "completed" THEN [isCompleted |-> TRUE]
                    ELSE IF validatedParams.status = "incomplete" THEN [isCompleted |-> FALSE]
                    ELSE <<>>
        filters == byStatus @@ [priority |-> validatedParams.priority,
                                categoryId |-> validatedParams.category]
        sort == [field |-> sortFieldMap[validatedParams.sortBy],
                 direction |-> validatedParams.sortOrder]
    IN IF ~user.ok THEN {Respond(d, handleError(Error(user.error)))}
       ELSE IF ~parsed.ok THEN {Respond(d, handleError(parsed.error))}
       ELSE {Respond(d, successResponse([todos |-> result, totalCount |-> Len(result)], 200)) :
                result \in getUserTodos(d, user.value, filters, sort)}

\* The parameters GET /api/todos is asked with: none, some and all of them,
\* each with a valid value, and one with a value that is not of its enum.
QueryParameters ==
    {<<>>,
     [status |-> "completed", sortBy |-> "dueDate", sortOrder |-> "asc"],
     [priority |-> <<"3">>],
     [category |-> 1],
     [priority |-> <<"3">>, category |-> 1],
     [status |-> "incomplete", priority |-> <<"2">>, category |-> 2, sortBy |-> "title",
      sortOrder |-> "asc"],
     [priority |-> <<"2">>, category |-> 1, sortBy |-> "id"]}

RequestGetTodos(session, searchParams) ==
    /\ \E result \in GET_todos(db, session, searchParams) :
            Request("GET /todos", 0, session, searchParams, result)
    /\ UNCHANGED <<uuid, now>>

\* The bodies the todos to list are created and updated with.
QueryTodoBodies ==
    {[title |-> String(<<"a">>), priority |-> String(<<"3">>),
      dueDate |-> [type |-> "datetime", value |-> MaxTime]],
     [title |-> String(<<"b">>)]}

QueryUpdateBodies ==
    {[isCompleted |-> [type |-> "boolean", value |-> TRUE]]}
    \cup {[categoryIds |-> Array(<<c>>)] : c \in CategoryIds}

\* Queries: both users create todos as time passes, user "A" completes and
\* tags todos and asks for the list, with and without a session.
QueryNext ==
    \/ \E session \in Users, body \in QueryTodoBodies : RequestPostTodos(session, body)
    \/ \E id \in TodoIds, body \in QueryUpdateBodies : RequestPatchTodo("A", id, body)
    \/ RequestPostCategories("A", [name |-> String(<<"a">>)])
    \/ \E session \in {"A", NoSession}, searchParams \in QueryParameters :
            RequestGetTodos(session, searchParams)
    \/ Tick

QuerySpec == Init /\ [][QueryNext]_vars

\* Each parameter given has a valid value.
ValidParameters(searchParams) ==
    /\ "status" \in DOMAIN searchParams =>
            searchParams.status \in {"completed", "incomplete", "all"}
    /\ "priority" \in DOMAIN searchParams =>
            \E n \in DOMAIN priorityEnum : priorityEnum[n] = searchParams.priority
    /\ "category" \in DOMAIN searchParams => IsUuid(searchParams.category)
    /\ "sortBy" \in DOMAIN searchParams => searchParams.sortBy \in DOMAIN sortFieldMap
    /\ "sortOrder" \in DOMAIN searchParams => searchParams.sortOrder \in {"asc", "desc"}

\* The filters the parameters given ask for.
FiltersOf(searchParams) ==
    (IF "status" \in DOMAIN searchParams /\ searchParams.status = "completed"
     THEN [isCompleted |-> TRUE]
     ELSE IF "status" \in DOMAIN searchParams /\ searchParams.status = "incomplete"
     THEN [isCompleted |-> FALSE] ELSE <<>>)
    @@ (IF "priority" \in DOMAIN searchParams
        THEN [priority |-> parseInt(searchParams.priority)] ELSE <<>>)
    @@ (IF "category" \in DOMAIN searchParams
        THEN [categoryId |-> searchParams.category] ELSE <<>>)

\* C13 as claimed: a GET /todos of a user with some of the parameters, each
\* with a valid value, is answered 200 with the user's todos that satisfy the
\* filters given, in the order asked for (created_at descending when none is),
\* and with their number as totalCount.
C13_GetTodos ==
    (last.op = "GET /todos" /\ last.userId \in Users /\ ValidParameters(last.arg)) =>
        /\ last.value.status = 200
        /\ last.value.body.totalCount = Len(last.value.body.todos)
        /\ Range(last.value.body.todos)
            = {t \in pre.todos :
                t.user_id = last.userId /\ Satisfies(pre, t, FiltersOf(last.arg))}
        /\ Sorted(last.value.body.todos,
                  IF "sortBy" \in DOMAIN last.arg THEN sortFieldMap[last.arg.sortBy]
                  ELSE "created_at",
                  IF "sortOrder" \in DOMAIN last.arg THEN last.arg.sortOrder ELSE "desc")
        /\ db = pre

\* ------------------------------------------------------------------ C14 .. C17
\* An ISO 8601 datetime string, by the instant it denotes.
Datetime(instant) == [type |-> "datetime", value |-> instant]

Boolean(b) == [type |-> "boolean", value |-> b]

\* The bodies of POST /todos where time matters: with a due date of every
\* instant and without one, with keys that are none of the schema's, and
\* without the title.
DueTodoBodies ==
    {<<>>,
     [title |-> String(<<"a">>)],
     [title |-> String(<<"a">>), isCompleted |-> Boolean(TRUE), user_id |-> String(<<"b">>)]}
    \cup {[title |-> String(<<"a">>), dueDate |-> Datetime(i)] : i \in 0..MaxTime}

\* The bodies of PATCH /todos/[id] where time matters, and the bodies with no
\* key of the schema.
DueUpdateBodies ==
    {<<>>,
     [user_id |-> String(<<"b">>)],
     [isCompleted |-> Boolean(TRUE)],
     [dueDate |-> JsNull]}
    \cup {[dueDate |-> Datetime(i)] : i \in 0..MaxTime}
    \cup {[isCompleted |-> Boolean(TRUE), dueDate |-> Datetime(i)] : i \in 0..MaxTime}

\* Due dates: users create and update todos as time passes.
DueDateNext ==
    \/ \E session \in Users, body \in DueTodoBodies : RequestPostTodos(session, body)
    \/ \E session \in Users, id \in TodoIds, body \in DueUpdateBodies :
            RequestPatchTodo(session, id, body)
    \/ Tick

DueDateSpec == Init /\ [][DueDateNext]_vars

\* C14: a POST /todos of a user with a valid body whose due date is before
\* now is answered 400 and creates no row; with a valid body without a due
\* date its answer is the same at every time, and it is 201 when the body
\* names no categories.
C14_CreateDueDate ==
    (last.op = "POST /todos" /\ last.userId \in Users /\ createTodoSchema(last.arg).ok) =>
        /\ ("dueDate" \in DOMAIN last.arg /\ last.arg.dueDate.value < now) =>
                /\ last.value.status = 400
                /\ db = pre
        /\ "dueDate" \notin DOMAIN last.arg =>
                /\ \A t \in 0..MaxTime :
                        POST_todos(pre, last.userId, last.arg, last.id, t).response.status
                            = last.value.status
                /\ "categoryIds" \notin DOMAIN last.arg =>
                        last.value.status = 201 /\ Cardinality(db.todos) = Cardinality(pre.todos) + 1

\* C14's case: a POST with a due date before now is rejected while the user
\* has a todo.
C14_Witness ==
    /\ last.op = "POST /todos" /\ last.userId \in Users
    /\ "dueDate" \in DOMAIN last.arg /\ last.arg.dueDate.value < now
    /\ last.value.status = 400
    /\ \E t \in db.todos : t.user_id = last.userId

\* C15 as claimed: a PATCH of an incomplete todo of the caller that sets
\* isCompleted to true and, in the same body, a due date before now is
\* answered 200.
C15_CompletingWithPastDueDate ==
    (/\ last.op = "PATCH /todos/id"
     /\ last.userId \in Users
     /\ \E t \in pre.todos : t.id = last.id /\ t.user_id = last.userId /\ ~t.is_completed
     /\ DOMAIN last.arg = {"isCompleted", "dueDate"}
     /\ last.arg.isCompleted = Boolean(TRUE)
     /\ last.arg.dueDate.type = "datetime"
     /\ last.arg.dueDate.value < now)
    => last.value.status = 200

\* The bodies of PATCH /todos/[id] with no key, with no key of the schema,
\* and with one.
EmptyUpdateBodies ==
    {<<>>, [user_id |-> String(<<"b">>)], [isCompleted |-> Boolean(TRUE)],
     [categoryIds |-> Array(<<1>>)]}

\* Updates without fields: users create todos, user "A" has a category, and
\* todos are updated and tagged through PATCH as time passes.
EmptyUpdateNext ==
    \/ \E session \in Users : RequestPostTodos(session, [title |-> String(<<"a">>)])
    \/ RequestPostCategories("A", [name |-> String(<<"a">>)])
    \/ \E session \in Users, id \in TodoIds, body \in EmptyUpdateBodies :
            RequestPatchTodo(session, id, body)
    \/ Tick

EmptyUpdateSpec == Init /\ [][EmptyUpdateNext]_vars

AtLeastOneField ==
    <<"At", "least", "one", "field", "must", "be", "provided", "for", "update">>

\* C16: a PATCH of a todo of the caller whose body (a JSON object) has no key
\* of updateTodoSchema is answered 400 with the 'At least one field' message,
\* and the todo, its updated_at and its association rows stay as they were.
C16_EmptyUpdateRejected ==
    (/\ last.op = "PATCH /todos/id"
     /\ last.userId \in Users
     /\ ~NoTodoOf(pre, last.id, last.userId)
     /\ DOMAIN last.arg \cap Range(UpdateKeys) = {})
    => /\ last.value.status = 400
       /\ last.value.body.error = <<"Validation", "failed">>
       /\ \E i \in DOMAIN last.value.body.validation :
                last.value.body.validation[i].message = AtLeastOneField
       /\ db = pre

\* C16's case: such a PATCH for a tagged todo that was last updated earlier,
\* with a body whose one key is none of the schema's.
C16_Witness ==
    /\ last.op = "PATCH /todos/id"
    /\ last.value.status = 400
    /\ DOMAIN last.arg = {"user_id"}
    /\ TagsOf(pre, last.id) # {}
    /\ \E t \in pre.todos : t.id = last.id /\ t.user_id = last.userId /\ t.updated_at < now

\* C17: every todo created through POST /todos is not completed and is owned
\* by the user of the session, whatever keys the body has, and one created
\* without a priority has priority 2, in the store and in the response.
C17_CreateDefaults ==
    (last.op = "POST /todos" /\ last.value.status = 201) =>
        /\ last.userId \in Users
        /\ \E new \in db.todos :
            /\ db.todos = pre.todos \cup {new}
            /\ new \notin pre.todos
            /\ new.id = last.id
            /\ ~new.is_completed
            /\ new.user_id = last.userId
            /\ "priority" \notin DOMAIN last.arg => new.priority = 2
            /\ \A r \in last.value.body.todo : r.todo = new

\* C17's case: a todo is created from a body without a priority that has
\* isCompleted and user_id keys, while a todo of the other user is there.
C17_Witness ==
    /\ last.op = "POST /todos" /\ last.value.status = 201
    /\ {"isCompleted", "user_id"} \subseteq DOMAIN last.arg
    /\ "priority" \notin DOMAIN last.arg
    /\ \E t \in pre.todos : t.user_id # last.userId

\* ------------------------------------------------------------------ C18
\* Authentication: every handler is asked with and without a session, with
\* bodies and parameters that pass validation and that do not.
AuthNext ==
    \/ \E session \in Sessions, body \in {<<>>, [title |-> String(<<"a">>)]} :
            RequestPostTodos(session, body)
    \/ \E session \in Sessions, id \in TodoIds,
            body \in {<<>>, [isCompleted |-> Boolean(TRUE)]} :
            RequestPatchTodo(session, id, body)
    \/ \E session \in Sessions, id \in TodoIds : RequestDeleteTodo(session, id)
    \/ \E session \in Sessions,
            searchParams \in {<<>>, [priority |-> <<"2">>, category |-> 1]} :
            RequestGetTodos(session, searchParams)
    \/ \E session \in Sessions : RequestGetCategories(session)
    \/ \E session \in Sessions, body \in CreateCategoryBodies :
            RequestPostCategories(session, body)
    \/ \E session \in Sessions, id \in CategoryIds : RequestDeleteCategory(session, id)

AuthSpec == Init /\ [][AuthNext]_vars

\* C18: a request without a session is answered 401 'Unauthorized access' by
\* every handler, whatever its body, its parameters and the store hold, and
\* the store stays as it was.
C18_AuthenticationFirst ==
    last.userId = NoSession =>
        /\ last.op \in {"GET /todos", "POST /todos", "PATCH /todos/id", "DELETE /todos/id",
                        "GET /categories", "POST /categories", "DELETE /categories/id"}
        /\ last.value = errorResponse(<<"Unauthorized", "access">>, 401, <<>>)
        /\ db = pre

\* C18's case: a PATCH without a session for a todo that is there, with a
\* body that does not pass validation.
C18_Witness ==
    /\ last.op = "PATCH /todos/id"
    /\ last.userId = NoSession
    /\ last.arg = <<>>
    /\ \E t \in pre.todos : t.id = last.id
    /\ pre.categories # {}

\* ------------------------------------------------------------------ C19
\* replaceTodoCategories await by await.  running holds the call in progress:
\* the statement it is to make next (pc), its arguments, and the category ids
\* the todo had when it began (old).  Each action below is one await of
\* replaceTodoCategories or of the addCategoriesToTodo it calls: one statement
\* against the store, with what follows it up to the next await.

\* The call goes on to its next await.
Continue(pc, d) ==
    /\ running' = [running EXCEPT !.pc = pc]
    /\ db' = d
    /\ pre' = db
    /\ last' = [op |-> "await", id |-> running.todoId, userId |-> running.userId,
                arg |-> running.categoryIds, ok |-> TRUE, value |-> null, error |-> <<>>]
    /\ UNCHANGED <<uuid, now>>

\* The call returns or throws.
Finish(todoId, categoryIds, userId, outcome) ==
    /\ running' = Idle
    /\ db' = outcome.db
    /\ pre' = db
    /\ last' = [op |-> "replaceTodoCategories", id |-> todoId, userId |-> userId,
                arg |-> categoryIds, ok |-> outcome.ok, value |-> outcome.value,
                error |-> outcome.error]
    /\ UNCHANGED <<uuid, now>>

FinishRunning(outcome) ==
    Finish(running.todoId, running.categoryIds, running.userId, outcome)

\* const todo = await getTodoById(todoId, userId); if (!todo) throw ...
ReplaceGetTodoById(todoId, categoryIds, userId) ==
    /\ running.pc = "idle"
    /\ IF getTodoById(db, todoId, userId).value = null
       THEN Finish(todoId, categoryIds, userId, Throw(db, FailedToReplaceCategories))
       ELSE /\ running' = [pc |-> "delete", todoId |-> todoId, categoryIds |-> categoryIds,
                           userId |-> userId, old |-> TagsOf(db, todoId)]
            /\ pre' = db
            /\ last' = [op |-> "await", id |-> todoId, userId |-> userId,
                        arg |-> categoryIds, ok |-> TRUE, value |-> null, error |-> <<>>]
            /\ UNCHANGED <<db, uuid, now>>

\* await db.delete(todoCategories).where(eq(todoCategories.todo_id, todoId))
ReplaceDelete ==
    /\ running.pc = "delete"
    /\ LET removed == [db EXCEPT !.todoCategories = DeleteByTodo(@, running.todoId)]
       IN IF Len(running.categoryIds) > 0 THEN Continue("add", removed)
          ELSE FinishRunning(Return(removed, null))

\* addCategoriesToTodo: const todo = await getTodoById(todoId, userId)
AddGetTodoById ==
    /\ running.pc = "add"
    /\ IF getTodoById(db, running.todoId, running.userId).value = null
       THEN FinishRunning(Throw(db, FailedToReplaceCategories))
       ELSE Continue("getUserCategories", db)

\* addCategoriesToTodo: const userCategs = await getUserCategories(userId)
AddGetUserCategories ==
    /\ running.pc = "getUserCategories"
    /\ LET validCategoryIds == {c.id : c \in getUserCategories(db, running.userId).value}
       IN IF \E i \in DOMAIN running.categoryIds :
                running.categoryIds[i] \notin validCategoryIds
          THEN FinishRunning(Throw(db, FailedToReplaceCategories))
          ELSE Continue("insert", db)

\* addCategoriesToTodo: await db.insert(todoCategories).values(values).onConflictDoNothing()
AddInsert ==
    /\ running.pc = "insert"
    /\ LET values == AssociationValues(running.todoId, running.categoryIds)
       IN IF ~ForeignKeysHold(db, values)
          THEN FinishRunning(Throw(db, FailedToReplaceCategories))
          ELSE FinishRunning(
                    Return([db EXCEPT !.todoCategories = onConflictDoNothing(@, values)],
                           null))

\* An addCategoriesToTodo call made while no replaceTodoCategories call runs.
AddCategoryWhileIdle(todoId, categoryId, userId) ==
    /\ running.pc = "idle"
    /\ CallAddCategoriesToTodo(todoId, <<categoryId>>, userId)

\* Concurrency: user "A" has todos and categories and tags todos; one
\* replaceTodoCategories call at a time runs await by await, and between its
\* awaits the todos are read, and todos and categories are deleted.
ConcurrentNext ==
    \/ CallCreateTodo([user_id |-> "A", title |-> <<"a">>])
    \/ CallCreateCategory([user_id |-> "A", name |-> <<"a">>, color |-> DefaultColor])
    \/ \E t \in TodoIds, c \in CategoryIds : AddCategoryWhileIdle(t, c, "A")
    \/ \E t \in TodoIds, cs \in CategoryIdLists : ReplaceGetTodoById(t, cs, "A")
    \/ ReplaceDelete
    \/ AddGetTodoById
    \/ AddGetUserCategories
    \/ AddInsert
    \/ \E t \in TodoIds : CallGetTodoWithCategories(t, "A")
    \/ \E c \in CategoryIds : CallGetUserTodos("A", [categoryId |-> c], <<>>)
    \/ \E t \in TodoIds : CallDeleteTodo(t, "A")
    \/ \E c \in CategoryIds : CallDeleteCategory(c, "A")

ConcurrentSpec == Init /\ [][ConcurrentNext]_vars

\* The call in progress has made its delete and not yet its insert, and goes
\* from some categories to some categories.
BetweenDeleteAndInsert ==
    /\ running.pc \in {"add", "getUserCategories", "insert"}
    /\ running.old # {}
    /\ Range(running.categoryIds) # {}

\* C19: a getTodoWithCategories made while a replaceTodoCategories call from
\* a non-empty set of categories to a non-empty one is between its delete and
\* its insert returns the todo with no categories, which is neither the old
\* set nor the new one, and a getUserTodos filtered by a category does not
\* return the todo.
C19_ReplaceNotAtomic ==
    BetweenDeleteAndInsert =>
        /\ (last.op = "getTodoWithCategories" /\ last.id = running.todoId) =>
                \A r \in last.value :
                    /\ r.categories = {}
                    /\ {c.id : c \in r.categories}
                            \notin {running.old, Range(running.categoryIds)}
        /\ last.op = "getUserTodos" =>
                \A i \in DOMAIN last.value : last.value[i].id # running.todoId

\* C19's case: the todo is read with no categories while the call that
\* replaces its categories by others is between its delete and its insert.
C19_Witness ==
    /\ BetweenDeleteAndInsert
    /\ last.op = "getTodoWithCategories" /\ last.id = running.todoId
    /\ \E r \in last.value : r.categories = {}

\* ------------------------------------------------------------------ C20
\* Categories: users create categories, through the query layer and through
\* POST /categories, and rename them.
CategoryNext ==
    \/ \E data \in NewCategories : CallCreateCategory(data)
    \/ \E session \in Users, body \in CreateCategoryBodies :
            RequestPostCategories(session, body)
    \/ \E c \in CategoryIds, u \in Users, data \in CategoryUpdates :
            CallUpdateCategory(c, u, data)
    \/ \E c \in CategoryIds, u \in Users : CallDeleteCategory(c, u)

CategorySpec == Init /\ [][CategoryNext]_vars

\* C20 as claimed: no user has two categories of one name.
C20_UniqueCategoryNames ==
    \A c1, c2 \in db.categories :
        (c1.user_id = c2.user_id /\ c1.name = c2.name) => c1 = c2

\* ------------------------------------------------------------------ C21
\* The PATCH and DELETE handlers await by await.  Between a handler's
\* existence check and its statement, running holds the request (pc names the
\* handler) and the row the check read.

\* The handler answers: the request is over.
Answer(op, id, session, body, result) ==
    /\ running' = Idle
    /\ db' = result.db
    /\ pre' = db
    /\ last' = [op |-> op, id |-> id, userId |-> session, arg |-> body,
                ok |-> result.response.status < 400, value |-> result.response,
                error |-> <<>>]
    /\ UNCHANGED <<uuid, now>>

\* The existence check found the row: the handler goes on to its statement.
Found(op, id, session, body, existing) ==
    /\ running' = [pc |-> op, id |-> id, userId |-> session, body |-> body,
                   existing |-> existing]
    /\ pre' = db
    /\ last' = [op |-> "await", id |-> id, userId |-> session, arg |-> body,
                ok |-> TRUE, value |-> null, error |-> <<>>]
    /\ UNCHANGED <<db, uuid, now>>

\* PATCH: const userId = await getUserId(); const existingTodo = await getTodoById(id, userId)
PatchGetTodoById(session, id, body) ==
    /\ running.pc = "idle"
    /\ IF getUserId(session).ok /\ getTodoById(db, id, session).value # null
       THEN Found("PATCH /todos/id", id, session, body, getTodoById(db, id, session).value)
       ELSE Answer("PATCH /todos/id", id, session, body,
                   PATCH_todos_id(db, session, id, body, now))

\* PATCH: await request.json() and what follows it
PatchUpdateTodo ==
    /\ running.pc = "PATCH /todos/id"
    /\ Answer(running.pc, running.id, running.userId, running.body,
              PATCH_existingTodo(db, running.userId, running.existing, running.id,
                                 running.body, now))

\* DELETE /todos/[id]: getUserId and getTodoById
DeleteGetTodoById(session, id) ==
    /\ running.pc = "idle"
    /\ IF getUserId(session).ok /\ getTodoById(db, id, session).value # null
       THEN Found("DELETE /todos/id", id, session, <<>>, getTodoById(db, id, session).value)
       ELSE Answer("DELETE /todos/id", id, session, <<>>, DELETE_todos_id(db, session, id))

\* DELETE /todos/[id]: const deleted = await deleteTodo(id, userId)
DeleteDeleteTodo ==
    /\ running.pc = "DELETE /todos/id"
    /\ Answer(running.pc, running.id, running.userId, <<>>,
              DELETE_existingTodo(db, running.userId, running.id))

\* DELETE /categories/[id]: getUserId and getCategoryById
DeleteGetCategoryById(session, id) ==
    /\ running.pc = "idle"
    /\ IF getUserId(session).ok /\ getCategoryById(db, id, session).value # null
       THEN Found("DELETE /categories/id", id, session, <<>>,
                  getCategoryById(db, id, session).value)
       ELSE Answer("DELETE /categories/id", id, session, <<>>,
                   DELETE_categories_id(db, session, id))

\* DELETE /categories/[id]: const deleted = await deleteCategory(id, userId)
DeleteDeleteCategory ==
    /\ running.pc = "DELETE /categories/id"
    /\ Answer(running.pc, running.id, running.userId, <<>>,
              DELETE_existingCategory(db, running.userId, running.id))

\* The bodies of the PATCH requests that race: one without keys and valid
\* ones, none of which names a category.
RaceUpdateBodies ==
    {<<>>, [isCompleted |-> Boolean(TRUE)], [title |-> String(<<"b">>)]}

\* Races: users create todos and categories; one PATCH or DELETE request at a
\* time is answered await by await, and between its awaits the requests of
\* other clients that delete a todo or a category are answered.
RaceNext ==
    \/ \E session \in Users : RequestPostTodos(session, [title |-> String(<<"a">>)])
    \/ \E session \in Users : RequestPostCategories(session, [name |-> String(<<"a">>)])
    \/ \E session \in Sessions, id \in TodoIds, body \in RaceUpdateBodies :
            PatchGetTodoById(session, id, body)
    \/ PatchUpdateTodo
    \/ \E session \in Sessions, id \in TodoIds : DeleteGetTodoById(session, id)
    \/ DeleteDeleteTodo
    \/ \E session \in Sessions, id \in CategoryIds : DeleteGetCategoryById(session, id)
    \/ DeleteDeleteCategory
    \/ \E session \in Users, id \in TodoIds : RequestDeleteTodo(session, id)
    \/ \E session \in Users, id \in CategoryIds : RequestDeleteCategory(session, id)

RaceSpec == Init /\ [][RaceNext]_vars

\* C21 as claimed: a PATCH /todos/{id} with a valid body, a DELETE /todos/{id}
\* or a DELETE /categories/{id} of a user who has no row of that id when the
\* handler's update or delete statement runs is answered 404, and these
\* handlers answer 200, 400, 401 or 404 and nothing else.
C21_AbsentIsNotFound ==
    /\ (last.op = "PATCH /todos/id" /\ updateTodoSchema(last.arg).ok
            /\ last.userId \in Users /\ NoTodoOf(pre, last.id, last.userId))
        => last.value.status = 404
    /\ (last.op = "DELETE /todos/id"
            /\ last.userId \in Users /\ NoTodoOf(pre, last.id, last.userId))
        => last.value.status = 404
    /\ (last.op = "DELETE /categories/id"
            /\ last.userId \in Users /\ NoCategoryOf(pre, last.id, last.userId))
        => last.value.status = 404
    /\ last.op \in {"PATCH /todos/id", "DELETE /todos/id", "DELETE /categories/id"}
        => last.value.status \in {200, 400, 401, 404}

\* ------------------------------------------------------------------ C22
\* The todos the statistics are asked over: with and without a due date.
StatsTodos ==
    NewTodos \cup {[user_id |-> u, title |-> <<"a">>, due_date |-> 0] : u \in Users}

StatsUpdates == {[is_completed |-> TRUE], [is_completed |-> FALSE], [due_date |-> NULL]}

\* Statistics: both users create, complete, reopen and delete todos as time
\* passes, and ask for their statistics.
StatsNext ==
    \/ \E data \in StatsTodos : CallCreateTodo(data)
    \/ \E t \in TodoIds, u \in Users, data \in StatsUpdates : CallUpdateTodo(t, u, data)
    \/ \E t \in TodoIds, u \in Users : CallDeleteTodo(t, u)
    \/ \E u \in Users : CallGetTodoStats(u)
    \/ Tick

StatsSpec == Init /\ [][StatsNext]_vars

\* C22: getTodoStats(user), evaluated at now, returns total = the number of
\* the user's todos, completed = the number of them that are completed,
\* pending = total - completed and overdue = the number of them that have a
\* due date before now and are not completed; so completed + pending = total
\* and overdue <= pending; the store stays as it was.
C22_TodoStats ==
    last.op = "getTodoStats" =>
        LET mine == {t \in pre.todos : t.user_id = last.userId}
            stats == last.value
        IN /\ last.ok
           /\ stats.total = Cardinality(mine)
           /\ stats.completed = Cardinality({t \in mine : t.is_completed})
           /\ stats.pending = stats.total - stats.completed
           /\ stats.overdue = Cardinality({t \in mine : /\ t.due_date # NULL
                                                         /\ t.due_date < now
                                                         /\ ~t.is_completed})
           /\ stats.completed + stats.pending = stats.total
           /\ stats.overdue <= stats.pending
           /\ db = pre

\* C22's case: the statistics of a user with a todo that is overdue and a
\* completed todo whose due date has passed.
C22_Witness ==
    /\ last.op = "getTodoStats"
    /\ last.value.overdue = 1
    /\ last.value.completed = 1
    /\ \E t \in pre.todos : t.user_id = last.userId /\ t.is_completed /\ t.due_date # NULL
                                /\ t.due_date < now

\* ------------------------------------------------------------------ C23
\* getUserTodos with a categoryId filter, await by await.  Between its two
\* queries running holds the call, the rows its first query returned (result)
\* and the ids of the todos that, at some instant since the call began,
\* satisfied every filter of the call together (seen).

\* The ids of the todos that satisfy every filter of the call in database d.
Matching(d, userId, filters) ==
    {t.id : t \in {r \in d.todos :
                    /\ Conditions(r, userId, filters)
                    /\ filters.categoryId \in TagsOf(d, r.id)}}

\* const result = await query
ListSelectTodos(userId, filters, sort) ==
    /\ running.pc = "idle"
    /\ \E result \in orderBy({t \in db.todos : Conditions(t, userId, filters)},
                             IF "field" \in DOMAIN sort THEN sort.field ELSE "created_at",
                             IF "direction" \in DOMAIN sort THEN sort.direction ELSE "desc") :
            running' = [pc |-> "getUserTodos", userId |-> userId, filters |-> filters,
                        sort |-> sort, result |-> result,
                        seen |-> Matching(db, userId, filters)]
    /\ pre' = db
    /\ last' = [op |-> "await", id |-> 0, userId |-> userId,
                arg |-> [filters |-> filters, sort |-> sort],
                ok |-> TRUE, value |-> null, error |-> <<>>]
    /\ UNCHANGED <<db, uuid, now>>

\* const todosInCategory = await db.select(...).from(todoCategories)...; the
\* rows of result whose id is among them are returned.
ListSelectTodoCategories ==
    /\ running.pc = "getUserTodos"
    /\ LET todoIds == {tc.todo_id : tc \in {r \in Rows(db.todoCategories) :
                                              r.category_id = running.filters.categoryId}}
       IN last' = [op |-> "getUserTodos", id |-> 0, userId |-> running.userId,
                   arg |-> [filters |-> running.filters, sort |-> running.sort],
                   ok |-> TRUE,
                   value |-> SelectSeq(running.result, LAMBDA todo : todo.id \in todoIds),
                   error |-> <<>>]
    /\ running' = [pc |-> "idle", seen |-> running.seen]
    /\ pre' = db
    /\ UNCHANGED <<db, uuid, now>>

\* A call of another request, made while getUserTodos is or is not between
\* its queries: seen takes the todos that satisfy the filters after it.
Beside(op, id, userId, arg, outcome) ==
    /\ db' = outcome.db
    /\ pre' = db
    /\ last' = [op |-> op, id |-> id, userId |-> userId, arg |-> arg,
                ok |-> outcome.ok, value |-> outcome.value, error |-> outcome.error]
    /\ running' = IF running.pc = "getUserTodos"
                  THEN [running EXCEPT
                            !.seen = @ \cup Matching(outcome.db, running.userId,
                                                     running.filters)]
                  ELSE running

UpdateTodoBeside(todoId, userId, data) ==
    /\ Beside("updateTodo", todoId, userId, data,
              updateTodo(db, todoId, userId, data, now))
    /\ UNCHANGED <<uuid, now>>

ReplaceTodoCategoriesBeside(todoId, categoryIds, userId) ==
    /\ Beside("replaceTodoCategories", todoId, userId, categoryIds,
              replaceTodoCategories(db, todoId, categoryIds, userId))
    /\ UNCHANGED <<uuid, now>>

\* The filters of the lists: a category alone, and with a completion state
\* or a priority.
SnapshotFilters ==
    {[categoryId |-> 1], [isCompleted |-> FALSE, categoryId |-> 1],
     [priority |-> 3, categoryId |-> 1]}

SnapshotUpdates == {[is_completed |-> TRUE], [priority |-> 3]}

\* The lists the todos are tagged with: none, one and two categories.
SnapshotLists == {<<>>, <<1>>, <<1, 2>>}

\* Snapshots: user "A" has todos and categories, lists by category with the
\* call's two queries apart, and updates and tags todos at any time.
SnapshotNext ==
    \/ CallCreateTodo([user_id |-> "A", title |-> <<"a">>])
    \/ CallCreateCategory([user_id |-> "A", name |-> <<"a">>, color |-> DefaultColor])
    \/ \E f \in SnapshotFilters : ListSelectTodos("A", f, <<>>)
    \/ ListSelectTodoCategories
    \/ \E t \in TodoIds, data \in SnapshotUpdates : UpdateTodoBeside(t, "A", data)
    \/ \E t \in TodoIds, cs \in SnapshotLists : ReplaceTodoCategoriesBeside(t, cs, "A")

SnapshotSpec == Init /\ [][SnapshotNext]_vars

\* C23 as claimed: every todo a getUserTodos call with a categoryId filter
\* returns satisfied all the filters of the call together (owner, completion,
\* priority, category) at one instant between the call's first query and its
\* return.
C23_SingleSnapshot ==
    (last.op = "getUserTodos" /\ running.pc = "idle") =>
        \A i \in DOMAIN last.value : last.value[i].id \in running.seen

\* ------------------------------------------------------------------ C24
\* The bodies of PATCH /todos/[id] for the due date rule: those of
\* DueUpdateBodies, and one that supplies a past due date and reopens the todo.
DueRuleBodies ==
    DueUpdateBodies \cup {[isCompleted |-> Boolean(FALSE), dueDate |-> Datetime(0)]}

\* The due date rule: users create todos with and without a due date, and
\* update them as time passes.
DueRuleNext ==
    \/ \E session \in Users,
          body \in {[title |-> String(<<"a">>)],
                    [title |-> String(<<"a">>), dueDate |-> Datetime(MaxTime)]} :
            RequestPostTodos(session, body)
    \/ \E session \in Users, id \in TodoIds, body \in DueRuleBodies :
            RequestPatchTodo(session, id, body)
    \/ Tick

DueRuleSpec == Init /\ [][DueRuleNext]_vars

\* C24: a PATCH of a todo of the caller with a valid body that supplies a
\* due date before now is answered 200 and stores it when the stored todo is
\* completed, and is answered 400 with the store unchanged when the stored
\* todo is incomplete and the body does not set isCompleted to true; a PATCH
\* whose dueDate is null is answered 200 and leaves the todo without a due
\* date, whether the stored todo is completed or not.
C24_UpdateDueDate ==
    (/\ last.op = "PATCH /todos/id"
     /\ last.userId \in Users
     /\ ~NoTodoOf(pre, last.id, last.userId)
     /\ updateTodoSchema(last.arg).ok
     /\ "dueDate" \in DOMAIN last.arg)
    => LET old == CHOOSE t \in pre.todos : t.id = last.id /\ t.user_id = last.userId
           dueDate == last.arg.dueDate
           completes == "isCompleted" \in DOMAIN last.arg /\ last.arg.isCompleted.value
           stored(value) ==
                /\ last.value.status = 200
                /\ \E new \in db.todos :
                        /\ new.id = last.id
                        /\ new.due_date = value
                        /\ db.todos = (pre.todos \ {old}) \cup {new}
       IN /\ (dueDate.type = "datetime" /\ dueDate.value < now /\ old.is_completed)
                => stored(dueDate.value)
          /\ (dueDate.type = "datetime" /\ dueDate.value < now /\ ~old.is_completed
                /\ ~completes)
                => (last.value.status = 400 /\ db = pre)
          /\ dueDate.type = "null" => stored(NULL)

\* C24's case: a due date before now is accepted for a completed todo.
C24_Witness ==
    /\ last.op = "PATCH /todos/id"
    /\ last.value.status = 200
    /\ "dueDate" \in DOMAIN last.arg
    /\ last.arg.dueDate.type = "datetime"
    /\ last.arg.dueDate.value < now
    /\ \E t \in pre.todos : t.id = last.id /\ t.is_completed
    /\ \E t \in db.todos : t.id = last.id /\ t.due_date = last.arg.dueDate.value

\* ------------------------------------------------------------------ C25
\* The words of the messages handleError is given: those it looks for, one
\* that differs from one of them by its capital, and one it does not look for.
ClassifyWords ==
    {"not", "found", "unauthorized", "Unauthorized", "No", "user", "forbidden", "todo"}

\* The messages of at most three words.
ClassifyMessages == UNION {[1..n -> ClassifyWords] : n \in 0..3}

ClassifyIssues ==
    {[path |-> "title", message |-> <<"Title", "is", "required">>],
     [path |-> "dueDate", message |-> <<"not", "found">>]}

\* The values a handler's catch block may be given: Errors, ZodErrors with no,
\* one and two issues, and values that are no Error.
ThrownValues ==
    {Error(message) : message \in ClassifyMessages}
    \cup {ZodError(issues) : issues \in UNION {[1..n -> ClassifyIssues] : n \in 0..2}}
    \cup {Thrown(message) : message \in {<<>>, <<"not", "found">>, <<"forbidden">>}}

\* return handleError(error)
CallHandleError(error) ==
    /\ pre' = db
    /\ last' = [op |-> "handleError", id |-> 0, userId |-> "", arg |-> error,
                ok |-> FALSE, value |-> handleError(error), error |-> <<>>]
    /\ UNCHANGED <<db, uuid, now, running>>

\* return errorResponse(message, status)
CallErrorResponse(message, status) ==
    /\ pre' = db
    /\ last' = [op |-> "errorResponse", id |-> 0, userId |-> "", arg |-> message,
                ok |-> FALSE, value |-> errorResponse(message, status, <<>>),
                error |-> <<>>]
    /\ UNCHANGED <<db, uuid, now, running>>

\* Classification: handleError is given every thrown value, and errorResponse
\* the messages and statuses the handlers call it with.
ClassifyNext ==
    \/ \E error \in ThrownValues : CallHandleError(error)
    \/ \E message \in {<<"Todo", "not", "found">>, <<"Failed", "to", "update", "todo">>},
          status \in {400, 404, 500} : CallErrorResponse(message, status)

ClassifySpec == Init /\ [][ClassifyNext]_vars

\* C25: handleError answers every thrown value: a ZodError with 400 and one
\* {field, message} entry per issue, in order; else an Error whose message
\* contains 'not found' with 404; else one whose message contains
\* 'unauthorized' or 'No user found' with 401; else one whose message contains
\* 'forbidden' with 403; everything else with 500; and the code of the body of
\* every error response is its status.
C25_ErrorClassification ==
    /\ last.op = "handleError" =>
        LET error == last.arg
            response == last.value
            isError == error.name = "Error"
        IN /\ response.status =
                IF error.name = "ZodError" THEN 400
                ELSE IF isError /\ includes(error.message, <<"not", "found">>) THEN 404
                ELSE IF isError /\ (\/ includes(error.message, <<"unauthorized">>)
                                    \/ includes(error.message, <<"No", "user", "found">>))
                     THEN 401
                ELSE IF isError /\ includes(error.message, <<"forbidden">>) THEN 403
                ELSE 500
           /\ error.name = "ZodError" =>
                /\ Len(response.body.validation) = Len(error.issues)
                /\ \A i \in DOMAIN error.issues :
                        response.body.validation[i]
                            = [field |-> error.issues[i].path,
                               message |-> error.issues[i].message]
    /\ last.op \in {"handleError", "errorResponse"} =>
            last.value.body.code = last.value.status

\* C25's case: an Error whose message contains 'not found' and
\* 'unauthorized' is answered 404.
C25_Witness ==
    /\ last.op = "handleError"
    /\ last.arg.name = "Error"
    /\ includes(last.arg.message, <<"not", "found">>)
    /\ includes(last.arg.message, <<"unauthorized">>)
    /\ last.value.status = 404

\* ------------------------------------------------------------------ C26
\* A JSON number, by its digits.
Number(digits) == [type |-> "number", value |-> digits]

\* The bodies with a priority: as a JSON number, as the dashboard's
\* parseInt(data.priority) and the documentation's example send it, and as a
\* string of priorityEnum.
PriorityTodoBodies ==
    {[title |-> String(<<"a">>)]}
    \cup {[title |-> String(<<"a">>), priority |-> Number(priorityEnum[n])] : n \in 1..4}
    \cup {[title |-> String(<<"a">>), priority |-> String(priorityEnum[n])] : n \in 1..4}

PriorityUpdateBodies ==
    {[priority |-> Number(priorityEnum[n])] : n \in {1, 4}}
    \cup {[priority |-> String(priorityEnum[n])] : n \in {1, 4}}

\* Priorities: users create todos with a priority, change it and delete them.
PriorityNext ==
    \/ \E session \in Users, body \in PriorityTodoBodies : RequestPostTodos(session, body)
    \/ \E session \in Users, id \in TodoIds, body \in PriorityUpdateBodies :
            RequestPatchTodo(session, id, body)
    \/ \E session \in Users, id \in TodoIds : RequestDeleteTodo(session, id)

PrioritySpec == Init /\ [][PriorityNext]_vars

\* C26 as claimed: a POST /todos of a user whose body has a title and, as
\* priority, a JSON number of 1..4 is answered 201, and the todo is stored
\* with that priority.
C26_NumericPriority ==
    (/\ last.op = "POST /todos"
     /\ last.userId \in Users
     /\ DOMAIN last.arg = {"title", "priority"}
     /\ last.arg.priority.type = "number"
     /\ last.arg.priority.value \in Range(priorityEnum))
    => /\ last.value.status = 201
       /\ \E new \in db.todos :
                new.id = last.id /\ new.priority = parseInt(last.arg.priority.value)

\* ------------------------------------------------------------------ C27
\* Two replaceTodoCategories calls at once.  running.calls holds the two
\* calls: the await each is to make next (pc, "returned" or "thrown" when the
\* call is over) and its arguments.

\* The call as it begins.
ReplaceCall(todoId, categoryIds, userId) ==
    [pc |-> "getTodoById", todoId |-> todoId, categoryIds |-> categoryIds,
     userId |-> userId]

\* One await of a replaceTodoCategories call, or of the addCategoriesToTodo it
\* calls, on database d: the call after it, and the database.
ReplaceAwait(call, d) ==
    LET todo == getTodoById(d, call.todoId, call.userId).value
        validCategoryIds == {c.id : c \in getUserCategories(d, call.userId).value}
        values == AssociationValues(call.todoId, call.categoryIds)
        to(pc, database) == [call |-> [call EXCEPT !.pc = pc], db |-> database]
    IN IF call.pc = "getTodoById"
       THEN to(IF todo = null THEN "thrown" ELSE "delete", d)
       ELSE IF call.pc = "delete"
       THEN to(IF Len(call.categoryIds) > 0 THEN "add" ELSE "returned",
               [d EXCEPT !.todoCategories = DeleteByTodo(@, call.todoId)])
       ELSE IF call.pc = "add"
       THEN to(IF todo = null THEN "thrown" ELSE "getUserCategories", d)
       ELSE IF call.pc = "getUserCategories"
       THEN to(IF \E i \in DOMAIN call.categoryIds :
                        call.categoryIds[i] \notin validCategoryIds
               THEN "thrown" ELSE "insert", d)
       ELSE IF ~ForeignKeysHold(d, values) THEN to("thrown", d)
       ELSE to("returned", [d EXCEPT !.todoCategories = onConflictDoNothing(@, values)])

\* Two requests call replaceTodoCategories for one todo.
ReplaceTwice(todoId, categoryIds1, categoryIds2, userId) ==
    /\ running.pc = "idle"
    /\ running' = [pc |-> "replaceTodoCategories",
                   calls |-> <<ReplaceCall(todoId, categoryIds1, userId),
                               ReplaceCall(todoId, categoryIds2, userId)>>]
    /\ pre' = db
    /\ last' = [op |-> "call", id |-> todoId, userId |-> userId,
                arg |-> <<categoryIds1, categoryIds2>>,
                ok |-> TRUE, value |-> null, error |-> <<>>]
    /\ UNCHANGED <<db, uuid, now>>

\* Call p makes its next await.
ReplaceStep(p) ==
    /\ running.pc = "replaceTodoCategories"
    /\ running.calls[p].pc \notin {"returned", "thrown"}
    /\ LET after == ReplaceAwait(running.calls[p], db)
       IN /\ running' = [running EXCEPT !.calls[p] = after.call]
          /\ db' = after.db
          /\ pre' = db
          /\ last' = [op |-> "await", id |-> after.call.todoId, userId |-> after.call.userId,
                      arg |-> after.call.categoryIds,
                      ok |-> after.call.pc # "thrown", value |-> null, error |-> <<>>]
    /\ UNCHANGED <<uuid, now>>

\* Both calls are over.
ReplaceTwiceOver ==
    /\ running.pc = "replaceTodoCategories"
    /\ \A p \in 1..2 : running.calls[p].pc \in {"returned", "thrown"}
    /\ running' = Idle
    /\ pre' = db
    /\ last' = [op |-> "replaceTodoCategories twice", id |-> running.calls[1].todoId,
                userId |-> running.calls[1].userId,
                arg |-> <<running.calls[1].categoryIds, running.calls[2].categoryIds>>,
                ok |-> \A p \in 1..2 : running.calls[p].pc = "returned",
                value |-> null, error |-> <<>>]
    /\ UNCHANGED <<db, uuid, now>>

\* Concurrent replaces: user "A" has todos and categories and tags todos, and
\* two replaceTodoCategories calls for one todo run at once, await by await.
TwoReplacesNext ==
    \/ CallCreateTodo([user_id |-> "A", title |-> <<"a">>])
    \/ CallCreateCategory([user_id |-> "A", name |-> <<"a">>, color |-> DefaultColor])
    \/ \E t \in TodoIds, c \in CategoryIds : AddCategoryWhileIdle(t, c, "A")
    \/ \E t \in TodoIds, cs1, cs2 \in CategoryIdLists : ReplaceTwice(t, cs1, cs2, "A")
    \/ \E p \in 1..2 : ReplaceStep(p)
    \/ ReplaceTwiceOver

TwoReplacesSpec == Init /\ [][TwoReplacesNext]_vars

\* C27 as claimed: when two replaceTodoCategories calls for one todo, with
\* the lists L1 and L2, have run at once and both have returned, the category
\* ids of the todo's association rows are the ids of L1 or the ids of L2.
C27_ReplacesSerialize ==
    (last.op = "replaceTodoCategories twice" /\ last.ok) =>
        TagsOf(db, last.id) \in {Range(last.arg[1]), Range(last.arg[2])}

\* ------------------------------------------------------------------ C28
\* C28 as claimed: when POST /todos or PATCH /todos/{id} is answered 400, 404
\* or 500, the store is as it was before the request: no todo row is created,
\* no todo row is changed and the association rows are the same.
C28_FailedWritesChangeNothing ==
    (/\ last.op \in {"POST /todos", "PATCH /todos/id"}
     /\ last.value.status \in {400, 404, 500})
    => db = pre

\* ------------------------------------------------------------------ C29
\* The lists of category ids the association calls are made with.
IntegrityLists == {<<1>>, <<1, 2>>}

\* Every interleaving of the operations on todos, categories and associations
\* by both users: todos and categories are created, updated (the update data
\* may name the id, as the data types of updateTodo and updateCategory allow)
\* and deleted, associations are removed, and one replaceTodoCategories call
\* at a time, with the addCategoriesToTodo it calls, runs await by await
\* while the other calls are made between its awaits.
IntegrityNext ==
    \/ \E u \in Users : CallCreateTodo([user_id |-> u, title |-> <<"a">>])
    \/ \E u \in Users :
            CallCreateCategory([user_id |-> u, name |-> <<"a">>, color |-> DefaultColor])
    \/ \E t \in TodoIds, u \in Users, i \in TodoIds : CallUpdateTodo(t, u, [id |-> i])
    \/ \E c \in CategoryIds, u \in Users, i \in CategoryIds :
            CallUpdateCategory(c, u, [id |-> i])
    \/ \E t \in TodoIds, u \in Users : CallDeleteTodo(t, u)
    \/ \E c \in CategoryIds, u \in Users : CallDeleteCategory(c, u)
    \/ \E t \in TodoIds, u \in Users, c \in CategoryIds :
            CallRemoveCategoriesFromTodo(t, <<c>>, u)
    \/ \E t \in TodoIds, u \in Users, cs \in IntegrityLists : ReplaceGetTodoById(t, cs, u)
    \/ ReplaceDelete
    \/ AddGetTodoById
    \/ AddGetUserCategories
    \/ AddInsert

IntegritySpec == Init /\ [][IntegrityNext]_vars

\* C29 as claimed: in every reachable state, under any interleaving of the
\* todo, category and association operations of any users, every association
\* row references a todo that exists and a category that exists, the two are
\* owned by one user, and no (todo, category) pair has more than one row.
C29_AssociationIntegrity ==
    \A tc \in Rows(db.todoCategories) :
        /\ CopiesIn(tc, db.todoCategories) = 1
        /\ \E t \in db.todos, c \in db.categories :
                /\ t.id = tc.todo_id
                /\ c.id = tc.category_id
                /\ t.user_id = c.user_id

\* ------------------------------------------------------------------ C30
\* Two toggleTodoCompletion calls for one todo.  running.calls holds the two
\* calls: the await each is to make next (pc, "returned" or "thrown" when the
\* call is over), its arguments, the row its getTodoById read and whether it
\* returned an updated row; running.initial is the todo's flag as the calls
\* begin.

\* The call as it begins.
ToggleCall(todoId, userId) ==
    [pc |-> "getTodoById", todoId |-> todoId, userId |-> userId, todo |-> null,
     toggled |-> FALSE]

\* One await of a toggleTodoCompletion call on database d at time t: the call
\* after it, and the database.
ToggleAwait(call, d, t) ==
    LET todo == getTodoById(d, call.todoId, call.userId).value
        updated == updateTodo(d, call.todoId, call.userId,
                       [is_completed |-> ~(CHOOSE r \in call.todo : TRUE).is_completed], t)
    IN IF call.pc = "getTodoById"
       THEN [call |-> [call EXCEPT !.pc = IF todo = null THEN "returned" ELSE "updateTodo",
                                   !.todo = todo],
             db |-> d]
       ELSE [call |-> [call EXCEPT !.pc = IF updated.ok THEN "returned" ELSE "thrown",
                                   !.toggled = updated.ok /\ updated.value # null],
             db |-> updated.db]

\* Two requests call toggleTodoCompletion for one todo.
ToggleTwice(todoId, userId1, userId2) ==
    /\ running.pc = "idle"
    /\ running' = [pc |-> "toggleTodoCompletion",
                   calls |-> <<ToggleCall(todoId, userId1), ToggleCall(todoId, userId2)>>,
                   initial |-> \E r \in db.todos : r.id = todoId /\ r.is_completed]
    /\ pre' = db
    /\ last' = [op |-> "call", id |-> todoId, userId |-> userId1,
                arg |-> <<userId1, userId2>>,
                ok |-> TRUE, value |-> null, error |-> <<>>]
    /\ UNCHANGED <<db, uuid, now>>

\* Call p makes its next await.
ToggleStep(p) ==
    /\ running.pc = "toggleTodoCompletion"
    /\ running.calls[p].pc \notin {"returned", "thrown"}
    /\ LET after == ToggleAwait(running.calls[p], db, now)
       IN /\ running' = [running EXCEPT !.calls[p] = after.call]
          /\ db' = after.db
          /\ pre' = db
          /\ last' = [op |-> "await toggleTodoCompletion", id |-> after.call.todoId,
                      userId |-> after.call.userId, arg |-> <<>>,
                      ok |-> after.call.pc # "thrown",
                      value |-> IF after.call.toggled
                                THEN getTodoById(after.db, after.call.todoId,
                                                 after.call.userId).value
                                ELSE null,
                      error |-> <<>>]
    /\ UNCHANGED <<uuid, now>>

\* Both calls are over: last.arg is the flag as the calls began and the
\* number of calls that returned an updated row.
ToggleTwiceOver ==
    /\ running.pc = "toggleTodoCompletion"
    /\ \A p \in 1..2 : running.calls[p].pc \in {"returned", "thrown"}
    /\ running' = Idle
    /\ pre' = db
    /\ last' = [op |-> "toggleTodoCompletion twice", id |-> running.calls[1].todoId,
                userId |-> running.calls[1].userId,
                arg |-> [initial |-> running.initial,
                         n |-> Cardinality({p \in 1..2 : running.calls[p].toggled})],
                ok |-> \A p \in 1..2 : running.calls[p].pc = "returned",
                value |-> null, error |-> <<>>]
    /\ UNCHANGED <<db, uuid, now>>

\* Toggles: both users have todos, and two toggleTodoCompletion calls for one
\* todo, each by either user, run await by await: one after the other, or the
\* second between the awaits of the first.
ToggleNext ==
    \/ \E u \in Users : CallCreateTodo([user_id |-> u, title |-> <<"a">>])
    \/ \E t \in TodoIds, u1, u2 \in Users : ToggleTwice(t, u1, u2)
    \/ \E p \in 1..2 : ToggleStep(p)
    \/ ToggleTwiceOver

ToggleSpec == Init /\ [][ToggleNext]_vars

\* C30 as claimed: when two toggleTodoCompletion calls for one todo are over,
\* n of them having returned the updated row, the todo's flag is the flag it
\* had as the calls began when n is even and its negation when n is odd; and
\* an await of a call by a user who does not own the todo changes nothing and
\* returns no row.
C30_ToggleParity ==
    /\ last.op = "toggleTodoCompletion twice" =>
            \A r \in db.todos : r.id = last.id =>
                r.is_completed = (IF last.arg.n % 2 = 0 THEN last.arg.initial
                                  ELSE ~last.arg.initial)
    /\ (/\ last.op = "await toggleTodoCompletion"
        /\ ~\E r \in pre.todos : r.id = last.id /\ r.user_id = last.userId)
       => db = pre /\ last.value = null

====
